---- MODULE Spec2Model ----
(***************************************************************************)
(* Model of the crypto-condition subsystem of xrpl-wallet-console:         *)
(*   common/libs/crypto_condition.js  (Condition / Fulfillment DER codec)  *)
(*   common/libs/bcrypt_sha256.js     (Sha256condition, BCryptSHA256)      *)
(*   escrow/escrow_condition.js       (the interactive builders)           *)
(*   escrow/escrow_finish.js          (Fee)                                *)
(*                                                                         *)
(* Data representation.  A JavaScript value is a record with one           *)
(* distinguishing field: [undef], [null], [str], [buf], [num], [bool].     *)
(* A string or a Buffer is a sequence of units.  A unit is a character     *)
(* [c |-> "a"], a byte [b |-> 171], or a block [h, of, size]: an opaque    *)
(* run of `size` units produced by a library hash primitive (SHA-256,      *)
(* HMAC-SHA-256, bcrypt).  The hash primitives are collision free: a       *)
(* block names the primitive and its exact inputs.                         *)
(***************************************************************************)
EXTENDS Integers, Sequences, FiniteSets, TLC

(***************************************************************************)
(* JavaScript values                                                       *)
(***************************************************************************)
Undef == [undef |-> TRUE]

Null == [null |-> TRUE]

Str(s) == [str |-> s]

Buf(s) == [buf |-> s]

Num(n) == [num |-> n]

Bool(x) == [bool |-> x]

IsUndef(v) == "undef" \in DOMAIN v

IsNull(v) == "null" \in DOMAIN v

IsStr(v) == "str" \in DOMAIN v

IsBuf(v) == "buf" \in DOMAIN v

IsNum(v) == "num" \in DOMAIN v

IsBool(v) == "bool" \in DOMAIN v

\* JavaScript truthiness of a value: !!v
Truthy(v) ==
  IF IsStr(v) THEN Len(v.str) > 0
  ELSE IF IsNum(v) THEN v.num # 0
  ELSE IF IsBool(v) THEN v.bool
  ELSE IF IsBuf(v) THEN TRUE
  ELSE FALSE

(***************************************************************************)
(* Characters, bytes and strings                                           *)
(***************************************************************************)
Ascii ==
  <<
    " ", "!", "\"", "#", "$", "%", "&", "'", "(", ")", "*", "+", ",", "-", ".", "/",
    "0", "1", "2", "3", "4", "5", "6", "7", "8", "9", ":", ";", "<", "=", ">", "?",
    "@", "A", "B", "C", "D", "E", "F", "G", "H", "I", "J", "K", "L", "M", "N", "O",
    "P", "Q", "R", "S", "T", "U", "V", "W", "X", "Y", "Z", "[", "\\", "]", "^", "_",
    "GRAVE", "a", "b", "c", "d", "e", "f", "g", "h", "i", "j", "k", "l", "m", "n", "o",
    "p", "q", "r", "s", "t", "u", "v", "w", "x", "y", "z", "{", "|", "}", "~"
  >>
\* (code 96, the grave accent, is held under the name GRAVE)

\* the code point of every printable ASCII character
AsciiCode == [ch \in {Ascii[i] : i \in 1..Len(Ascii)} |-> 31 + (CHOOSE i \in 1..Len(Ascii) : Ascii[i] = ch)]

\* code point of a printable ASCII character
CharCode(ch) == AsciiCode[ch]

\* the character of a printable ASCII code point
FromCharCode(n) == Ascii[n - 31]

\* a string literal: the sequence of its character units
S(t) == [i \in 1..Len(t) |-> [c |-> t[i]]]

\* n copies of the sequence s
RECURSIVE Rep(_, _)
Rep(s, n) == IF n <= 0 THEN <<>> ELSE s \o Rep(s, n - 1)

IsBlock(e) == "h" \in DOMAIN e

IsChar(e) == "c" \in DOMAIN e

IsByte(e) == "b" \in DOMAIN e

UnitSize(e) == IF IsBlock(e) THEN e.size ELSE 1

\* .length of a string or Buffer
RECURSIVE Length(_)
Length(s) == IF Len(s) = 0 THEN 0 ELSE UnitSize(s[1]) + Length(Tail(s))

\* s.slice(-n): the last n units
RECURSIVE SliceLast(_, _)
SliceLast(s, n) ==
  IF n <= 0 \/ Len(s) = 0 THEN <<>>
  ELSE LET e == s[Len(s)]
           sz == UnitSize(e)
       IN IF sz <= n
          THEN SliceLast(SubSeq(s, 1, Len(s) - 1), n - sz) \o <<e>>
          ELSE <<[h |-> "tail", of |-> <<<<e>>>>, size |-> n]>>

\* s.slice(n): everything after the first n units
RECURSIVE SliceFrom(_, _)
SliceFrom(s, n) ==
  IF Len(s) = 0 THEN <<>>
  ELSE IF n <= 0 THEN s
  ELSE LET e == s[1]
           sz == UnitSize(e)
       IN IF sz <= n
          THEN SliceFrom(Tail(s), n - sz)
          ELSE <<[h |-> "tail", of |-> <<<<e>>>>, size |-> sz - n]>> \o Tail(s)

\* s.substring(0, n): the first n units
RECURSIVE Substring0(_, _)
Substring0(s, n) ==
  IF n <= 0 \/ Len(s) = 0 THEN <<>>
  ELSE LET e == s[1]
           sz == UnitSize(e)
       IN IF sz <= n
          THEN <<e>> \o Substring0(Tail(s), n - sz)
          ELSE <<[h |-> "head", of |-> <<<<e>>>>, size |-> n]>>

IsSpace(e) == IsChar(e) /\ e.c = " "

\* String.prototype.trim
RECURSIVE TrimStart(_)
TrimStart(s) == IF Len(s) > 0 /\ IsSpace(s[1]) THEN TrimStart(Tail(s)) ELSE s

RECURSIVE TrimEnd(_)
TrimEnd(s) ==
  IF Len(s) > 0 /\ IsSpace(s[Len(s)]) THEN TrimEnd(SubSeq(s, 1, Len(s) - 1)) ELSE s

Trim(s) == TrimEnd(TrimStart(s))

\* String.prototype.toUpperCase, one unit
UpperUnit(e) ==
  IF IsChar(e)
  THEN LET n == CharCode(e.c)
       IN IF n >= 97 /\ n <= 122 THEN [c |-> FromCharCode(n - 32)] ELSE e
  ELSE IF IsBlock(e) /\ e.h = "hex" THEN [e EXCEPT !.h = "HEX"]
  ELSE e

toUpperCase(s) == [i \in 1..Len(s) |-> UpperUnit(s[i])]

\* Buffer.from(string): the bytes of the text
Utf8Unit(e) ==
  IF IsChar(e) THEN [b |-> CharCode(e.c)]
  ELSE [h |-> "utf8", of |-> <<<<e>>>>, size |-> e.size]

BufferFrom(s) == [i \in 1..Len(s) |-> Utf8Unit(s[i])]

\* buffer.toString(): the text of the bytes
TextUnit(e) ==
  IF IsByte(e) THEN [c |-> FromCharCode(e.b)]
  ELSE IF e.h = "utf8" THEN e.of[1][1]
  ELSE [h |-> "text", of |-> <<<<e>>>>, size |-> e.size]

toString(buf) == [i \in 1..Len(buf) |-> TextUnit(buf[i])]

(***************************************************************************)
(* Hexadecimal text                                                        *)
(***************************************************************************)
HexDigits == <<"0", "1", "2", "3", "4", "5", "6", "7", "8", "9", "a", "b", "c", "d", "e", "f">>

\* buffer.toString('hex'), one unit: two lower-case digits per byte
HexUnit(e) ==
  IF IsByte(e)
  THEN <<[c |-> HexDigits[(e.b \div 16) + 1]], [c |-> HexDigits[(e.b % 16) + 1]]>>
  ELSE <<[h |-> "hex", of |-> <<<<e>>>>, size |-> 2 * e.size]>>

RECURSIVE toStringHex(_)
toStringHex(buf) == IF Len(buf) = 0 THEN <<>> ELSE HexUnit(buf[1]) \o toStringHex(Tail(buf))

\* value of a hexadecimal digit of either case, -1 for any other unit
HexVal(e) ==
  IF ~IsChar(e) THEN -1
  ELSE LET n == CharCode(e.c)
       IN IF n >= 48 /\ n <= 57 THEN n - 48
          ELSE IF n >= 97 /\ n <= 102 THEN n - 87
          ELSE IF n >= 65 /\ n <= 70 THEN n - 55
          ELSE -1

\* Buffer.from(string, 'hex'): pairs of digits, the data is truncated at the
\* first pair that is not hexadecimal and at a trailing single digit
RECURSIVE BufferFromHex(_)
BufferFromHex(s) ==
  IF Len(s) = 0 THEN <<>>
  ELSE IF IsBlock(s[1]) /\ s[1].h \in {"hex", "HEX"}
  THEN s[1].of[1] \o BufferFromHex(Tail(s))
  ELSE IF Len(s) < 2 THEN <<>>
  ELSE IF HexVal(s[1]) < 0 \/ HexVal(s[2]) < 0 THEN <<>>
  ELSE <<[b |-> 16 * HexVal(s[1]) + HexVal(s[2])]>> \o BufferFromHex(SubSeq(s, 3, Len(s)))

(***************************************************************************)
(* Library primitives: crypto (node) and bcrypt (node.bcrypt.js)           *)
(***************************************************************************)
\* crypto.createHash('sha256').update(data).digest(): a Buffer of 32 bytes
SHA256(data) == <<[h |-> "sha256", of |-> <<data>>, size |-> 32]>>

\* JSON.parse(JSON.stringify(digest)).data: the 32 byte values of the digest
\* of a short text.  The bytes identify the hashed text (its character codes,
\* an end marker, zero fill), so that digests of different texts of at most
\* 15 characters differ within their first 16 bytes.
digestArray(digest) ==
  LET t == digest[1].of[1]
  IN [i \in 1..32 |-> IF i <= Len(t) THEN CharCode(t[i].c)
                      ELSE IF i = Len(t) + 1 THEN 128 ELSE 0]

\* crypto.createHmac('sha256', key).update(secret).digest('base64'): 44 characters
HmacSha256Base64(key, secret) ==
  <<[h |-> "hmac-sha256-base64", of |-> <<key, secret>>, size |-> 44]>>

\* the bcrypt alphabet, as character codes
BASE64_CODE ==
  <<46, 47, 65, 66, 67, 68, 69, 70, 71, 72, 73, 74, 75, 76, 77, 78,
    79, 80, 81, 82, 83, 84, 85, 86, 87, 88, 89, 90, 97, 98, 99, 100,
    101, 102, 103, 104, 105, 106, 107, 108, 109, 110, 111, 112, 113, 114, 115, 116,
    117, 118, 119, 120, 121, 122, 48, 49, 50, 51, 52, 53, 54, 55, 56, 57>>

\* index of every code point in the bcrypt alphabet, -1 when it is not in it
Base64IndexOfCode ==
  [n \in 32..126 |-> IF \E i \in 1..64 : BASE64_CODE[i] = n
                     THEN (CHOOSE i \in 1..64 : BASE64_CODE[i] = n) - 1
                     ELSE -1]

\* index of a character unit in the bcrypt alphabet, -1 when it is not in it
Base64Index(e) == IF ~IsChar(e) THEN -1 ELSE Base64IndexOfCode[CharCode(e.c)]

\* bcrypt's own encode_base64 of 16 salt bytes: 22 characters, the 128 bits
\* taken six at a time from the most significant end, the last character
\* holding the two remaining bits in its high end
LibEncodeBase64(bytes) ==
  LET bit(k) == IF k > 8 * Len(bytes) THEN 0
                ELSE (bytes[((k - 1) \div 8) + 1] \div (2 ^ (7 - ((k - 1) % 8)))) % 2
      sym(j) == 32 * bit(6 * j - 5) + 16 * bit(6 * j - 4) + 8 * bit(6 * j - 3)
                + 4 * bit(6 * j - 2) + 2 * bit(6 * j - 1) + bit(6 * j)
  IN [j \in 1..((8 * Len(bytes) + 5) \div 6) |-> [c |-> FromCharCode(BASE64_CODE[sym(j) + 1])]]

\* the two decimal digits of a cost factor
TwoDigits(n) == S(<<HexDigits[(n \div 10) + 1], HexDigits[(n % 10) + 1]>>)

\* bcrypt.genSaltSync(rounds): version, cost factor clamped to 4..31, and
\* the encoding of the 16 random bytes it draws
genSaltSync(rounds, seed) ==
  LET r == IF rounds < 4 THEN 4 ELSE IF rounds > 31 THEN 31 ELSE rounds
  IN S(<<"$", "2", "b", "$">>) \o TwoDigits(r) \o S(<<"$">>) \o LibEncodeBase64(seed)

IsDigit(e) == IsChar(e) /\ CharCode(e.c) >= 48 /\ CharCode(e.c) <= 57

\* bcrypt's validation of a salt: $2a$ or $2b$, a two digit cost factor in
\* 4..31, and a body of at least 22 characters of the alphabet
BcryptSaltOk(salt) ==
  /\ Len(salt) >= 29
  /\ \A i \in 1..29 : IsChar(salt[i])
  /\ salt[1].c = "$" /\ salt[2].c = "2" /\ salt[3].c \in {"a", "b"}
  /\ salt[4].c = "$" /\ IsDigit(salt[5]) /\ IsDigit(salt[6]) /\ salt[7].c = "$"
  /\ LET r == 10 * (CharCode(salt[5].c) - 48) + (CharCode(salt[6].c) - 48)
     IN r >= 4 /\ r <= 31
  /\ \A i \in 8..29 : Base64Index(salt[i]) >= 0

\* the salt as bcrypt writes it at the head of a hash: the 16 salt bytes
\* decoded from the 22 character body and encoded again, which keeps the
\* first 21 characters and clears the four low bits of the last one
BcryptSaltEcho(salt) ==
  SubSeq(salt, 1, 28)
  \o <<[c |-> FromCharCode(BASE64_CODE[16 * (Base64Index(salt[29]) \div 16) + 1])]>>

\* bcrypt.hashSync(data, salt): [throw] for a salt bcrypt rejects, else the
\* 60 character hash text: the salt echo and 31 hash characters
hashSync(data, salt) ==
  IF ~BcryptSaltOk(salt) THEN [throw |-> "Error"]
  ELSE LET echo == BcryptSaltEcho(salt)
       IN [text |-> echo \o <<[h |-> "bcrypt", of |-> <<data, echo>>, size |-> 31]>>]

Threw(r) == "throw" \in DOMAIN r

(***************************************************************************)
(* crypto_condition.js: the Condition / Fulfillment codec                  *)
(***************************************************************************)
MissingDataError == [throw |-> "MissingDataError"]

InternalError == [throw |-> "InternalError"]

AssertionError == [throw |-> "AssertionError"]

TypeError == [throw |-> "TypeError"]

NaN == [nan |-> TRUE]

IsNaN(v) == "nan" \in DOMAIN v

\* the value of a text of decimal digits
RECURSIVE DigitsValue(_)
DigitsValue(s) ==
  IF Len(s) = 0 THEN 0
  ELSE 10 * DigitsValue(SubSeq(s, 1, Len(s) - 1)) + (CharCode(s[Len(s)].c) - 48)

\* Number(v) for undefined, null, numbers and texts; a text converts, once
\* trimmed, to 0 when it is empty, to its value when it is made of decimal
\* digits, to NaN when it has any other character
Number(v) ==
  IF IsNum(v) THEN v
  ELSE IF IsNull(v) THEN Num(0)
  ELSE IF IsStr(v)
  THEN IF \A i \in 1..Len(Trim(v.str)) : IsDigit(Trim(v.str)[i])
       THEN Num(DigitsValue(Trim(v.str))) ELSE NaN
  ELSE NaN

\* the registry of condition types
TYPES ==
  [k \in {0} |-> [name |-> "preimage-sha-256",
                  asn1Condition |-> "preimageSha256Condition",
                  asn1Fulfillment |-> "preimageSha256Fulfillment",
                  category |-> "simple"]]

\* TYPES[typeId]: Undef for a key the registry does not hold
TypeOf(typeId) == IF IsNum(typeId) /\ typeId.num \in DOMAIN TYPES THEN TYPES[typeId.num] ELSE Undef

\* new Condition({ hash, typeId, cost, subtypes })
Condition(hash, typeId, cost, subtypes) ==
  [hash |-> hash, typeId |-> Number(typeId), cost |-> Number(cost),
   subtypes |-> subtypes, type |-> TypeOf(Number(typeId))]

\* DER definite length octets
DerLength(n) ==
  IF n < 128 THEN <<[b |-> n]>>
  ELSE IF n < 256 THEN <<[b |-> 129], [b |-> n]>>
  ELSE <<[b |-> 130], [b |-> n \div 256], [b |-> n % 256]>>

\* DER content octets of a non-negative INTEGER
DerInteger(n) ==
  IF n < 128 THEN <<[b |-> n]>>
  ELSE IF n < 32768 THEN (IF n < 256 THEN <<[b |-> 0], [b |-> n]>>
                          ELSE <<[b |-> n \div 256], [b |-> n % 256]>>)
  ELSE <<[b |-> 0], [b |-> n \div 256], [b |-> n % 256]>>

\* one tagged DER element
DerElement(tag, content) == <<[b |-> tag]>> \o DerLength(Length(content)) \o content

\* the CHOICE of the Condition schema: implicit context tag of each branch
Asn1SchemasConditions ==
  [preimageSha256Condition |-> [tag |-> 0, use |-> "simple256Condition"],
   prefixSha256Condition |-> [tag |-> 1, use |-> "compound256Condition"],
   thresholdSha256Condition |-> [tag |-> 2, use |-> "compound256Condition"],
   rsaSha256Condition |-> [tag |-> 3, use |-> "simple256Condition"],
   ed25519Sha256Condition |-> [tag |-> 4, use |-> "simple256Condition"]]

\* getAsn1Json of a compound type: the subtypes (a list of type names) as a
\* DER BIT STRING, the count of unused bits before the bit array that has
\* bit 7 - id % 8 of byte id >>> 3 set for every type id named
SubtypesBitString(subtypes) ==
  LET subtypeIds == {k \in DOMAIN TYPES : \E i \in 1..Len(subtypes) : subtypes[i] = TYPES[k].name}
      maxId == IF subtypeIds = {} THEN 0
               ELSE CHOOSE k \in subtypeIds : \A j \in subtypeIds : j <= k
      bit(j, k) == IF (8 * (j - 1) + k) \in subtypeIds THEN 2 ^ (7 - k) ELSE 0
  IN <<[b |-> 7 - (maxId % 8)]>>
     \o [j \in 1..(1 + (maxId \div 8)) |->
           [b |-> bit(j, 0) + bit(j, 1) + bit(j, 2) + bit(j, 3)
                  + bit(j, 4) + bit(j, 5) + bit(j, 6) + bit(j, 7)]]

\* Condition.serializeBinary: getAsn1Json (getType, getHash, getCost) and the
\* DER encoding of the chosen branch
ConditionSerializeBinary(cond) ==
  IF IsNaN(cond.typeId) THEN MissingDataError
  ELSE IF IsUndef(cond.type) THEN MissingDataError
  ELSE IF ~Truthy(cond.hash) THEN MissingDataError
  ELSE IF IsNaN(cond.cost) THEN MissingDataError
  ELSE LET branch == Asn1SchemasConditions[cond.type.asn1Condition]
           simple == DerElement(128, cond.hash.buf)
                     \o DerElement(129, DerInteger(cond.cost.num))
       IN Buf(DerElement(160 + branch.tag,
                         IF cond.type.category = "compound"
                         THEN simple \o DerElement(130, SubtypesBitString(cond.subtypes))
                         ELSE simple))

\* the CHOICE of the Fulfillment schema
Asn1SchemasFulfillments ==
  [preimageSha256Fulfillment |-> [tag |-> 0, use |-> "preimageFulfillment"],
   prefixSha256Fulfillment |-> [tag |-> 1, use |-> "prefixFulfillment"],
   thresholdSha256Fulfillment |-> [tag |-> 2, use |-> "thresholdFulfillment"],
   rsaSha256Fulfillment |-> [tag |-> 3, use |-> "rsaSha256Fulfillment"],
   ed25519Sha256Fulfillment |-> [tag |-> 4, use |-> "ed25519Sha256Fulfillment"]]

\* new Fulfillment({ preimage, typeId }).serializeBinary()
FulfillmentSerializeBinary(preimage, typeId) ==
  IF ~IsBuf(preimage) THEN TypeError
  ELSE IF IsNaN(Number(typeId)) THEN MissingDataError
  ELSE IF IsUndef(TypeOf(Number(typeId))) THEN MissingDataError
  ELSE LET branch == Asn1SchemasFulfillments[TypeOf(Number(typeId)).asn1Fulfillment]
       IN Buf(DerElement(160 + branch.tag, DerElement(128, preimage.buf)))

\* asn1Schemas of crypto_condition.js when the module is loaded: no schemas
\* built yet.  (asn, the handle of the asn1.js library, is set exactly when
\* the first schemas are built.)
NoSchemas == [conditions |-> Undef, fulfillments |-> Undef]

\* a variant that builds the schemas anew on every call, dropping the others
SchemasRebuilt(s, conditions, fulfillments) ==
  [conditions |-> IF conditions THEN Asn1SchemasConditions ELSE Undef,
   fulfillments |-> IF fulfillments THEN Asn1SchemasFulfillments ELSE Undef]

\* asn1Schemas after calls that reached Asn1SchemasConditions() (conditions)
\* or Asn1SchemasFulfillments() (fulfillments) in module state s: schemas
\* not yet held are built and kept, schemas held are returned as they are
SchemasCached(s, conditions, fulfillments) ==
  [conditions |-> IF conditions /\ IsUndef(s.conditions)
                  THEN Asn1SchemasConditions ELSE s.conditions,
   fulfillments |-> IF fulfillments /\ IsUndef(s.fulfillments)
                    THEN Asn1SchemasFulfillments ELSE s.fulfillments]

(***************************************************************************)
(* bcrypt_sha256.js                                                        *)
(***************************************************************************)
BCRYPT_MAXSALT == 16

SALT_LEN == 32

BCRYPT_SALT_B64_LEN == 22

preimageBytesSize == 32

fulfillmentMinCostDrops == 330

minSaltRoundsRequired == 10

\* Sha256Fulfillment({ preimage }): the hex text of the encoded fulfillment
Sha256Fulfillment(preimage) ==
  LET bin == FulfillmentSerializeBinary(preimage, Num(0))
  IN IF Threw(bin) THEN bin ELSE Str(toStringHex(bin.buf))

\* the symbols the loop of bcryptEncodeBase64 writes for p[idxp .. dataLength-1]
RECURSIVE EncodeLoop(_, _, _)
EncodeLoop(p, idxp, dataLength) ==
  IF idxp >= dataLength THEN <<>>
  ELSE LET c1 == p[idxp + 1]
           s1 == BASE64_CODE[(c1 \div 4) + 1]
           c1a == (c1 % 4) * 16
       IN IF idxp + 1 >= dataLength THEN <<s1, BASE64_CODE[c1a + 1]>>
          ELSE LET c2 == p[idxp + 2]
                   c1b == c1a + ((c2 \div 16) % 16)
                   s2 == BASE64_CODE[c1b + 1]
                   c1c == (c2 % 16) * 4
               IN IF idxp + 2 >= dataLength THEN <<s1, s2, BASE64_CODE[c1c + 1]>>
                  ELSE LET c3 == p[idxp + 3]
                           c1d == c1c + ((c3 \div 64) % 4)
                       IN <<s1, s2, BASE64_CODE[c1d + 1], BASE64_CODE[(c3 % 64) + 1]>>
                          \o EncodeLoop(p, idxp + 3, dataLength)

\* a variant that encodes whole groups of three bytes only
bcryptEncodeBase64WholeGroups(outBufferUint8, inDataUint8, dataLength) ==
  LET bp == EncodeLoop(inDataUint8, 0, 3 * (dataLength \div 3))
  IN [i \in 1..Len(outBufferUint8) |->
        IF i <= Len(bp) THEN [b |-> bp[i]]
        ELSE IF i = Len(bp) + 1 THEN [b |-> 0]
        ELSE outBufferUint8[i]]

\* bcryptEncodeBase64(outBufferUint8, inDataUint8, dataLength): the out buffer
\* after the call (symbols written from its start, then a zero byte)
bcryptEncodeBase64(outBufferUint8, inDataUint8, dataLength) ==
  LET bp == EncodeLoop(inDataUint8, 0, dataLength)
  IN [i \in 1..Len(outBufferUint8) |->
        IF i <= Len(bp) THEN [b |-> bp[i]]
        ELSE IF i = Len(bp) + 1 THEN [b |-> 0]
        ELSE outBufferUint8[i]]

\* index of the last "$" of a string, 0 when there is none
LastDollar(s) ==
  IF \E i \in 1..Len(s) : IsChar(s[i]) /\ s[i].c = "$"
  THEN CHOOSE i \in 1..Len(s) :
         /\ IsChar(s[i]) /\ s[i].c = "$"
         /\ \A j \in (i + 1)..Len(s) : ~(IsChar(s[j]) /\ s[j].c = "$")
  ELSE 0

\* a variant that returns the random template with its own body
bcryptPermanentSaltKeepsTemplate(b64SaltBase, bcryptHashRounds, seed) ==
  genSaltSync(bcryptHashRounds, seed)

\* bcryptPermanentSalt(b64SaltBase, bcryptHashRounds): a fresh random salt
\* whose last "$" separated part is replaced by the derived body
bcryptPermanentSalt(b64SaltBase, bcryptHashRounds, seed) ==
  LET salt == genSaltSync(bcryptHashRounds, seed)
      k == LastDollar(salt)
      permanentSalt == Substring0(b64SaltBase, Len(salt) - k)
  IN SubSeq(salt, 1, k) \o permanentSalt

\* bcryptIsSaltValid(salt): [throw] when bcrypt rejects the salt, else whether
\* the head of the hash of 'test' echoes the salt
bcryptIsSaltValid(salt) ==
  LET tmphash == hashSync(S(<<"t", "e", "s", "t">>), salt)
  IN IF Threw(tmphash) THEN tmphash
     ELSE Bool(Substring0(tmphash.text, 7 + 22) = salt)

\* a variant that leaves the pepper out of the digest
PermanentSaltBodyWithoutPepper(secret, pepper) ==
  LET saltSeedArray == SubSeq(digestArray(SHA256(secret)), 1, BCRYPT_MAXSALT)
      saltBuffer == bcryptEncodeBase64([i \in 1..SALT_LEN |-> [b |-> 0]],
                                       saltSeedArray, Len(saltSeedArray))
  IN toString(SubSeq(saltBuffer, 1, BCRYPT_SALT_B64_LEN))

\* saltB64String of bcryptPermanentSaltFromSecret: the 22 character body
\* encoded from the first 16 digest bytes of secret + trimmed pepper
PermanentSaltBody(secret, pepper) ==
  LET pep == IF IsStr(pepper) THEN Str(Trim(pepper.str)) ELSE pepper
      digest == SHA256(secret \o (IF Truthy(pep) THEN pep.str ELSE <<>>))
      saltSeedArray == SubSeq(digestArray(digest), 1, BCRYPT_MAXSALT)
      saltBuffer == bcryptEncodeBase64([i \in 1..SALT_LEN |-> [b |-> 0]],
                                       saltSeedArray, Len(saltSeedArray))
  IN toString(SubSeq(saltBuffer, 1, BCRYPT_SALT_B64_LEN))

\* bcryptPermanentSaltFromSecret({ secret, pepper, saltRounds }): the salt as
\* [salt |-> ...], or [throw] when the self-check fails
bcryptPermanentSaltFromSecret(secret, pepper, saltRounds, seed) ==
  LET checked(salt, valid) ==
        IF Threw(valid) THEN valid
        ELSE IF ~valid.bool THEN AssertionError
        ELSE [salt |-> salt]
      with(salt) == checked(salt, bcryptIsSaltValid(salt))
  IN with(bcryptPermanentSalt(PermanentSaltBody(secret, pepper), saltRounds, seed))

\* a variant that keys the HMAC with the secret
sha256hmacDigestBase64KeyedBySecret(secret, hmacKey) == HmacSha256Base64(secret, hmacKey)

\* sha256hmacDigestBase64(secret, hmacKey)
sha256hmacDigestBase64(secret, hmacKey) == HmacSha256Base64(hmacKey, secret)

\* the rounds BCryptSHA256 works with
EffectiveRounds(bcryptHashRounds) ==
  IF ~Truthy(bcryptHashRounds) \/ bcryptHashRounds.num < minSaltRoundsRequired
  THEN minSaltRoundsRequired
  ELSE bcryptHashRounds.num

\* BCryptSHA256(secret, { bcryptExistingSalt, bcryptUsePermanentSaltFromSecret,
\*                        bcryptPermanentSaltPepper, bcryptHashRounds })
BCryptSHA256(secret, p, seed) ==
  LET rounds == EffectiveRounds(p.bcryptHashRounds)
      permanent(perm) == IF Threw(perm) THEN perm
                         ELSE [salt |-> perm.salt, saltRandom |-> FALSE]
      hashed(chosen, fullhash) ==
        IF Threw(fullhash) THEN fullhash
        ELSE [fullhash |-> fullhash.text,
              hash |-> SliceFrom(fullhash.text, Length(chosen.salt)),
              salt |-> chosen.salt,
              saltRandom |-> chosen.saltRandom,
              bcryptHashRounds |-> rounds]
      with(chosen) ==
        IF Threw(chosen) THEN chosen
        ELSE hashed(chosen, hashSync(sha256hmacDigestBase64(secret, chosen.salt), chosen.salt))
  IN with(IF Truthy(p.bcryptExistingSalt)
          THEN [salt |-> p.bcryptExistingSalt.str, saltRandom |-> FALSE]
          ELSE IF Truthy(p.bcryptUsePermanentSaltFromSecret)
          THEN permanent(bcryptPermanentSaltFromSecret(secret, p.bcryptPermanentSaltPepper,
                                                       rounds, seed))
          ELSE [salt |-> genSaltSync(rounds, seed), saltRandom |-> TRUE])

\* Math.ceil(preimage.length / 16) * 10
PreimageCostDrops(n) == ((n + 15) \div 16) * 10

\* a variant that writes the size the function draws itself as the cost
ConditionResponseFixedCost(preimage, generateRandomSecret, salt, saltRandom, bcryptRounds) ==
  IF Length(preimage) < preimageBytesSize THEN InternalError
  ELSE LET condition == ConditionSerializeBinary(
                          Condition(Buf(SHA256(preimage)), Num(0), Num(preimageBytesSize), <<>>))
       IN IF Threw(condition) THEN condition
          ELSE [salt |-> salt,
                saltRandom |-> saltRandom,
                bcryptRounds |-> bcryptRounds,
                hexSecretPreimage |-> toStringHex(preimage),
                hexCondition |-> toStringHex(condition.buf),
                random |-> generateRandomSecret,
                preimageLength |-> Length(preimage),
                preimageCostDrops |-> PreimageCostDrops(Length(preimage)),
                fulfillmentCostDrops |-> fulfillmentMinCostDrops + PreimageCostDrops(Length(preimage))]

\* a variant that leaves the salt out of the result
ConditionResponseWithoutSalt(preimage, generateRandomSecret, salt, saltRandom, bcryptRounds) ==
  IF Length(preimage) < preimageBytesSize THEN InternalError
  ELSE LET condition == ConditionSerializeBinary(
                          Condition(Buf(SHA256(preimage)), Num(0), Num(Length(preimage)), <<>>))
       IN IF Threw(condition) THEN condition
          ELSE [salt |-> Undef,
                saltRandom |-> saltRandom,
                bcryptRounds |-> bcryptRounds,
                hexSecretPreimage |-> toStringHex(preimage),
                hexCondition |-> toStringHex(condition.buf),
                random |-> generateRandomSecret,
                preimageLength |-> Length(preimage),
                preimageCostDrops |-> PreimageCostDrops(Length(preimage)),
                fulfillmentCostDrops |-> fulfillmentMinCostDrops + PreimageCostDrops(Length(preimage))]

\* a variant without the check of the preimage length
ConditionResponseNoMinimum(preimage, generateRandomSecret, salt, saltRandom, bcryptRounds) ==
  LET condition == ConditionSerializeBinary(
                     Condition(Buf(SHA256(preimage)), Num(0), Num(Length(preimage)), <<>>))
  IN IF Threw(condition) THEN condition
     ELSE [salt |-> salt,
           saltRandom |-> saltRandom,
           bcryptRounds |-> bcryptRounds,
           hexSecretPreimage |-> toStringHex(preimage),
           hexCondition |-> toStringHex(condition.buf),
           random |-> generateRandomSecret,
           preimageLength |-> Length(preimage),
           preimageCostDrops |-> PreimageCostDrops(Length(preimage)),
           fulfillmentCostDrops |-> fulfillmentMinCostDrops + PreimageCostDrops(Length(preimage))]

\* the part of Sha256condition after the preimage is known
ConditionResponse(preimage, generateRandomSecret, salt, saltRandom, bcryptRounds) ==
  IF Length(preimage) < preimageBytesSize THEN InternalError
  ELSE LET condition == ConditionSerializeBinary(
                          Condition(Buf(SHA256(preimage)), Num(0), Num(Length(preimage)), <<>>))
       IN IF Threw(condition) THEN condition
          ELSE [salt |-> salt,
                saltRandom |-> saltRandom,
                bcryptRounds |-> bcryptRounds,
                hexSecretPreimage |-> toStringHex(preimage),
                hexCondition |-> toStringHex(condition.buf),
                random |-> generateRandomSecret,
                preimageLength |-> Length(preimage),
                preimageCostDrops |-> PreimageCostDrops(Length(preimage)),
                fulfillmentCostDrops |-> fulfillmentMinCostDrops + PreimageCostDrops(Length(preimage))]

\* a variant that slices the hash with its salt prefix stripped
PreimageOfStrippedHash(fullhash) ==
  BufferFrom(SliceLast(SliceFrom(fullhash, 7 + BCRYPT_SALT_B64_LEN), preimageBytesSize))

\* preimage = Buffer.from(bcryptData.fullhash.slice(-1 * preimageBytesSize))
PreimageOfHash(fullhash) == BufferFrom(SliceLast(fullhash, preimageBytesSize))

\* Sha256condition({ existingPreimage, bcryptFromSecret, bcryptExistingSalt,
\*   bcryptHashRounds, bcryptUsePermanentSaltFromSecret, bcryptPermanentSaltPepper })
\* rnd.bytes is what crypto.randomBytes(32) draws in this call, rnd.seed the
\* 16 bytes bcrypt.genSaltSync draws
Sha256condition(p, rnd) ==
  LET generateRandomSecret == IsUndef(p.bcryptFromSecret)
      existing == IF IsBuf(p.existingPreimage) /\ Length(p.existingPreimage.buf) > 0
                  THEN Buf(p.existingPreimage.buf)
                  ELSE IF IsStr(p.existingPreimage) /\ Length(p.existingPreimage.str) > 0
                  THEN Buf(BufferFromHex(p.existingPreimage.str))
                  ELSE Undef
  IN IF IsBuf(existing)
     THEN ConditionResponse(existing.buf, generateRandomSecret, Undef, Undef, Undef)
     ELSE IF generateRandomSecret
     THEN ConditionResponse(rnd.bytes, generateRandomSecret, Undef, Undef, Undef)
     ELSE IF ~IsStr(p.bcryptFromSecret) \/ Len(Trim(p.bcryptFromSecret.str)) = 0
     THEN AssertionError
     ELSE LET derive(bcryptData) ==
                IF Threw(bcryptData) THEN bcryptData
                ELSE IF Length(bcryptData.fullhash) < preimageBytesSize THEN InternalError
                ELSE ConditionResponse(PreimageOfHash(bcryptData.fullhash),
                                       generateRandomSecret,
                                       Str(bcryptData.salt),
                                       Bool(bcryptData.saltRandom),
                                       Num(bcryptData.bcryptHashRounds))
          IN derive(BCryptSHA256(p.bcryptFromSecret.str, p, rnd.seed))

(***************************************************************************)
(* cli_args.js: prompts                                                    *)
(***************************************************************************)
\* String.prototype.toLowerCase
LowerUnit(e) ==
  IF IsChar(e)
  THEN LET n == CharCode(e.c)
       IN IF n >= 65 /\ n <= 90 THEN [c |-> FromCharCode(n + 32)] ELSE e
  ELSE IF IsBlock(e) /\ e.h = "HEX" THEN [e EXCEPT !.h = "hex"]
  ELSE e

toLowerCase(s) == [i \in 1..Len(s) |-> LowerUnit(s[i])]

infinityLoop == 20

\* PromptParameter as PromptRequired calls it (no default, not required).
\* lines are the lines the user types, the last one standing for every later
\* one; answerMinLength is -1 when the option is not given.  The answer is
\* the trimmed line, or Undef for an empty line and when every one of the 20
\* tries is too short.
RECURSIVE PromptParameter(_, _, _)
PromptParameter(lines, i, answerMinLength) ==
  IF i >= infinityLoop THEN Undef
  ELSE LET answer == Trim(lines[IF i + 1 <= Len(lines) THEN i + 1 ELSE Len(lines)])
       IN IF Len(answer) > 0 /\ answerMinLength >= 0 /\ Length(answer) < answerMinLength
          THEN PromptParameter(lines, i + 1, answerMinLength)
          ELSE IF Len(answer) = 0 THEN Undef
          ELSE Str(answer)

PromptRequired(lines, answerMinLength) == PromptParameter(lines, 0, answerMinLength)

\* ['y', 'yes'].includes(answer.toLowerCase())
\* a variant that takes any answer but the empty one for a yes
IsYesUnlessEmpty(answer) == Len(answer) > 0

IsYes(answer) == toLowerCase(answer) \in {S(<<"y">>), S(<<"y", "e", "s">>)}

(***************************************************************************)
(* escrow_finish.js: Fee                                                   *)
(***************************************************************************)
\* XRPL_SERVERS of common_settings.js: the settings of every known network name
XRPL_SERVERS ==
  [n \in {S(<<"T", "E", "S", "T">>), S(<<"D", "E", "V">>), S(<<"P", "U", "B">>),
          S(<<"L", "I", "V", "E">>), S(<<"M", "A", "I", "N">>),
          S(<<"M", "A", "I", "N", "N", "E", "T">>)} |->
     [minFee |-> 10,
      address |-> IF n = S(<<"T", "E", "S", "T">>) THEN S(<<"w", "s", "s", ":", "t">>)
                  ELSE IF n = S(<<"D", "E", "V">>) THEN S(<<"w", "s", "s", ":", "d">>)
                  ELSE S(<<"w", "s", "s", ":", "p">>)]]

\* networkMinFee(network): XrplServerSettings(network).minFee, a TypeError
\* for a name that is not a known network
networkMinFee(network) ==
  IF toUpperCase(network) \in DOMAIN XRPL_SERVERS
  THEN Num(XRPL_SERVERS[toUpperCase(network)].minFee)
  ELSE TypeError

\* a variant that charges for whole 16 byte blocks only
FeeRoundedDown(network, withCondition, preimageSize) ==
  LET minFee == networkMinFee(network)
  IN IF Threw(minFee) THEN minFee
     ELSE IF ~withCondition THEN minFee
     ELSE IF ~Truthy(preimageSize) THEN Num(340)
     ELSE Num(330 + (preimageSize.num \div 16) * 10)

\* Fee(network, { withCondition, preimageSize }), in drops
Fee(network, withCondition, preimageSize) ==
  LET minFee == networkMinFee(network)
      baseCost == 330
      preimageBlockCost == 10
  IN IF Threw(minFee) THEN minFee
     ELSE IF ~withCondition THEN minFee
     ELSE IF ~Truthy(preimageSize) THEN Num(baseCost + preimageBlockCost)
     ELSE Num(baseCost + ((preimageSize.num + 15) \div 16) * preimageBlockCost)

(***************************************************************************)
(* escrow_condition.js: the builders                                       *)
(***************************************************************************)
Exit == [exit |-> 1]

Exited(r) == "exit" \in DOMAIN r

passwordMinLength == 6

\* the parameters of a Sha256condition call that names none
NoParams ==
  [existingPreimage |-> Undef, bcryptFromSecret |-> Undef, bcryptExistingSalt |-> Undef,
   bcryptHashRounds |-> Undef, bcryptUsePermanentSaltFromSecret |-> Undef,
   bcryptPermanentSaltPepper |-> Undef]

\* escrowAskPasswordProtection(): the answers, [throw] or [exit].
\* a holds the lines typed at each prompt.
escrowAskPasswordProtection(a) ==
  IF ~IsYes(Trim(a.protect))
  THEN [protect |-> FALSE, random |-> Undef, secret |-> Undef, randomSalt |-> Undef,
        condition |-> Undef]
  ELSE IF Len(Trim(a.kind)) = 0
          \/ toLowerCase(Trim(a.kind)) \in {S(<<"r">>), S(<<"r", "a", "n", "d", "o", "m">>),
                                            S(<<"r", "n", "d">>)}
  THEN [protect |-> TRUE, random |-> Bool(TRUE), secret |-> Undef, randomSalt |-> Undef,
        condition |-> Undef]
  ELSE LET answer == PromptRequired(a.password, passwordMinLength)
       IN IF IsUndef(answer) THEN TypeError
          ELSE IF Len(Trim(answer.str)) = 0
          THEN [protect |-> TRUE, random |-> Undef, secret |-> Undef, randomSalt |-> Undef,
                condition |-> Undef]
          ELSE LET answer2 == PromptRequired(a.confirm, passwordMinLength)
               IN IF IsUndef(answer2) THEN TypeError
                  ELSE IF Len(Trim(answer2.str)) = 0 \/ Trim(answer2.str) # Trim(answer.str)
                  THEN Exit
                  ELSE [protect |-> TRUE, random |-> Undef, secret |-> Str(Trim(answer.str)),
                        randomSalt |-> Bool(IsYes(Trim(a.randomSalt))), condition |-> Undef]

\* the conditionParams escrowPasswordProtectionOnRequest builds from the answers
ConditionParams(answers, account, rounds) ==
  IF ~Truthy(answers.random) /\ Truthy(answers.secret)
  THEN [NoParams EXCEPT !.bcryptFromSecret = answers.secret,
                        !.bcryptUsePermanentSaltFromSecret = Bool(~Truthy(answers.randomSalt)),
                        !.bcryptPermanentSaltPepper = account,
                        !.bcryptHashRounds = Num(rounds)]
  ELSE NoParams

\* a variant that makes no second derivation
SelfCheckSkipped(conditionParams, shaCondition, rnd) == [derivs |-> <<>>]

\* the second derivation of escrowPasswordProtectionOnRequest and its
\* comparison with the first: [derivs] when they agree, [exit] when they do
\* not, [throw] when the second derivation throws
SelfCheck(conditionParams, shaCondition, rnd) ==
  LET params == IF Truthy(shaCondition.salt)
                THEN [conditionParams EXCEPT !.bcryptExistingSalt = shaCondition.salt]
                ELSE conditionParams
      compare(result_test) ==
        IF Threw(result_test) THEN result_test
        ELSE IF \/ shaCondition.hexCondition # result_test.hexCondition
                \/ shaCondition.hexSecretPreimage # result_test.hexSecretPreimage
                \/ Len(shaCondition.hexCondition) = 0
                \/ Len(shaCondition.hexSecretPreimage) = 0
        THEN Exit
        ELSE [derivs |-> <<result_test>>]
  IN compare(Sha256condition(params, rnd))

\* escrowPasswordProtectionOnRequest({ account }): [ret, derivs] on return,
\* [throw] or [exit] otherwise.  rounds is EscrowConditionBcryptRounds().
escrowPasswordProtectionOnRequest(account, a, rounds, rnd1, rnd2) ==
  LET shown(answers, shaCondition, check) ==
        LET showSecrets == shaCondition.random \/ Truthy(shaCondition.saltRandom)
            answer == PromptRequired(a.show, -1)
        IN IF Threw(check) \/ Exited(check) THEN check
           ELSE IF ~showSecrets /\ Truthy(answers.secret) /\ IsUndef(answer)
           THEN TypeError
           ELSE [ret |-> [answers EXCEPT !.condition = shaCondition],
                 derivs |-> <<shaCondition>> \o check.derivs]
      checked(answers, conditionParams, shaCondition) ==
        IF Threw(shaCondition) THEN shaCondition
        ELSE shown(answers, shaCondition,
                   IF ~Truthy(answers.random)
                   THEN SelfCheck(conditionParams, shaCondition, rnd2)
                   ELSE [derivs |-> <<>>])
      derived(answers, conditionParams) ==
        checked(answers, conditionParams, Sha256condition(conditionParams, rnd1))
      asked(answers) ==
        IF Threw(answers) \/ Exited(answers) THEN answers
        ELSE IF ~answers.protect THEN [ret |-> answers, derivs |-> <<>>]
        ELSE derived(answers, ConditionParams(answers, account, rounds))
  IN asked(escrowAskPasswordProtection(a))

\* escrowFulfillment(secret)
escrowFulfillment(secret) ==
  LET preimage == BufferFromHex(secret)
  IN [data |-> Sha256Fulfillment(Buf(preimage)), preimageSize |-> Num(Length(preimage))]

MaxAttempts == 20

\* a call of Sha256condition with a 32 byte existing preimage draws no
\* randomness
NoRandom == [bytes |-> <<>>, seed |-> <<>>]

\* the derivations one pass of the loop makes (none or one), from the lines
\* typed at its first prompts; rnd is what the derivation draws
PassDerivation(fin, in, rnd) ==
  LET isProtected == PromptRequired(in.isProtected, -1)
      how == IF IsUndef(isProtected) THEN <<>> ELSE toLowerCase(Trim(isProtected.str))
      byPassword == how \in {S(<<"p">>), S(<<"p", "a", "s", "s", "w", "o", "r", "d">>)}
      byKey == how \in {S(<<"k">>), S(<<"k", "e", "y">>)}
      keyIn == PromptRequired(in.secret, -1)
      password == PromptRequired(in.password, -1)
      salt == Str(Trim(in.salt))
  IN IF byKey /\ Truthy(keyIn)
     THEN <<Sha256condition([NoParams EXCEPT !.existingPreimage = keyIn], rnd)>>
     ELSE IF ~byKey /\ byPassword /\ Truthy(password)
     THEN <<Sha256condition([NoParams EXCEPT
                               !.bcryptFromSecret = password,
                               !.bcryptExistingSalt = salt,
                               !.bcryptUsePermanentSaltFromSecret = Bool(TRUE),
                               !.bcryptPermanentSaltPepper = fin.account], rnd)>>
     ELSE <<>>

\* a variant that compares the two texts as they are
ConditionMatchesCaseSensitive(shaCondition, escrowTestCondition) ==
  shaCondition.hexCondition = escrowTestCondition.str

\* shaCondition.hexCondition.toUpperCase() === escrowTestCondition.toUpperCase()
ConditionMatches(shaCondition, escrowTestCondition) ==
  toUpperCase(shaCondition.hexCondition) = toUpperCase(escrowTestCondition.str)

\* a variant of the loop without its limit
LoopNeverEnds(i) == FALSE

\* for (let i = 0; i < 20; i++): whether the loop is left after pass i
LoopEnds(i) == ~(i + 1 < MaxAttempts)

\* One pass of the loop of escrowFinishFulfillmentRequest.  fin holds the
\* arguments and the locals i, secret, shaCondition; in holds the lines typed
\* at the prompts of the pass, derivs is PassDerivation(fin, in, rnd).  The result
\* names how the pass ends (next: loop, return, throw, exit), the return
\* value, the locals after the pass and what the pass did and reported.
FinishPass(fin, in, derivs) ==
  LET isProtected == PromptRequired(in.isProtected, -1)
      how == IF IsUndef(isProtected) THEN <<>> ELSE toLowerCase(Trim(isProtected.str))
      byPassword == how \in {S(<<"p">>), S(<<"p", "a", "s", "s", "w", "o", "r", "d">>)}
      byKey == how \in {S(<<"k">>), S(<<"k", "e", "y">>)}
      keyIn == PromptRequired(in.secret, -1)
      password == PromptRequired(in.password, -1)
      secret == IF byKey THEN keyIn ELSE fin.secret
      derived == derivs # <<>>
      shaCondition == IF ~derived \/ Threw(derivs[1]) THEN fin.shaCondition ELSE derivs[1]
      cont == PromptRequired(in.cont, -1)
      again == PromptRequired(in.again, -1)
      out(next, ret, report) ==
        [next |-> next, ret |-> ret, secret |-> secret, shaCondition |-> shaCondition,
         att |-> [kind |-> IF byKey THEN "key" ELSE IF byPassword THEN "password" ELSE "none",
                  entered |-> IF byKey THEN keyIn ELSE IF byPassword THEN password ELSE Undef,
                  salt |-> IF ~byKey /\ byPassword THEN Str(Trim(in.salt)) ELSE Undef,
                  derivs |-> derivs, report |-> report,
                  cont |-> IF report \in {"mismatch", "uncomparable"} THEN cont ELSE Undef,
                  again |-> IF report = "mismatch" /\ ~IsUndef(cont) /\ ~IsYes(cont.str)
                            THEN again ELSE Undef]]
  IN IF IsUndef(isProtected) THEN out("throw", TypeError, "none")
     ELSE IF ~byPassword /\ ~byKey THEN out("return", Undef, "none")
     ELSE IF byKey /\ derived /\ ~Threw(derivs[1])
             /\ toUpperCase(derivs[1].hexSecretPreimage) # toUpperCase(keyIn.str)
     THEN out("exit", Exit, "none")
     ELSE IF ~byKey /\ derived /\ Threw(derivs[1]) THEN out("throw", derivs[1], "none")
     ELSE IF IsUndef(shaCondition)
     THEN IF byPassword THEN out("exit", Exit, "none")
          ELSE IF IsUndef(cont) THEN out("throw", TypeError, "uncomparable")
          ELSE IF IsYes(cont.str) THEN out("return", [data |-> secret], "uncomparable")
          ELSE out("return", Undef, "uncomparable")
     ELSE IF ~Truthy(fin.escrowTestCondition)
     THEN out("return", escrowFulfillment(shaCondition.hexSecretPreimage), "unchecked")
     ELSE IF ConditionMatches(shaCondition, fin.escrowTestCondition)
     THEN out("return", escrowFulfillment(shaCondition.hexSecretPreimage), "match")
     ELSE IF IsUndef(cont) THEN out("throw", TypeError, "mismatch")
     ELSE IF IsYes(cont.str)
     THEN out("return", escrowFulfillment(shaCondition.hexSecretPreimage), "mismatch")
     ELSE IF IsUndef(again) THEN out("throw", TypeError, "mismatch")
     ELSE IF ~IsYes(again.str) THEN out("return", Undef, "mismatch")
     ELSE IF LoopEnds(fin.i) THEN out("return", Undef, "mismatch")
     ELSE out("loop", Undef, "mismatch")

(***************************************************************************)
(* common.js, sign.js, submit_send.js: connections, sequences, Submit      *)
(***************************************************************************)
\* XrplServerAddress(network): the address of a known network, exit otherwise
XrplServerAddress(network) ==
  IF IsStr(network) /\ toUpperCase(network.str) \in DOMAIN XRPL_SERVERS
  THEN Str(XRPL_SERVERS[toUpperCase(network.str)].address)
  ELSE Exit

\* isNaN(v)
isNaN(v) == IsNaN(Number(v))

\* decode(transaction) of the xrpl library: the fields of a signed blob, an
\* error for any other text
decode(transaction) ==
  IF "blob" \in DOMAIN transaction THEN transaction.blob ELSE [throw |-> "Error"]

\* SequencesExpiration(sequenceData, { accountSeq, ledgerSeq })
SequencesExpiration(sequenceData, accountSeq, ledgerSeq) ==
  LET diff == Number(ledgerSeq).num - Number(sequenceData.ledgerLastIndex).num
      acc == IF Truthy(accountSeq)
             THEN [expired |-> Bool(\/ isNaN(accountSeq)
                                    \/ isNaN(sequenceData.accountSequence)
                                    \/ Number(accountSeq) # Number(sequenceData.accountSequence)),
                   current |-> sequenceData.accountSequence]
             ELSE Undef
      led == IF Truthy(ledgerSeq)
             THEN [expired |-> Bool(diff < 0),
                   current |-> sequenceData.ledgerLastIndex,
                   remaining |-> Num(IF diff > 0 THEN diff ELSE 0),
                   exceeded |-> Num(IF diff < 0 THEN -1 * diff ELSE 0)]
             ELSE Undef
  IN [accountSeq |-> acc, ledgerSeq |-> led,
      expired |-> IF ~IsUndef(acc) /\ acc.expired.bool THEN Bool(TRUE)
                  ELSE IF IsUndef(led) THEN Undef ELSE led.expired]

\* addLastLedgerIndexTimeout(data, sequenceData, { indexTimeout }): data after the call
addLastLedgerIndexTimeout(data, sequenceData, indexTimeout) ==
  IF Truthy(data.LastLedgerSequence) \/ ~Truthy(sequenceData.ledgerLastIndex) THEN data
  ELSE [data EXCEPT !.LastLedgerSequence =
          Num(Number(sequenceData.ledgerLastIndex).num + Number(indexTimeout).num)]

\* addAccountSequence(data, sequenceData): data after the call
addAccountSequence(data, sequenceData) ==
  IF Truthy(data.Sequence) \/ ~Truthy(sequenceData.accountSequence) THEN data
  ELSE [data EXCEPT !.Sequence = Number(sequenceData.accountSequence)]

\* no network operation started
NetIdle ==
  [op |-> "none", at |-> "idle", p |-> Undef, tx |-> Undef, answers |-> <<>>,
   clients |-> 0, queries |-> 0, submits |-> 0, info |-> Undef, validation |-> Undef,
   err |-> Undef, code |-> Undef]

(***************************************************************************)
(* The state machine                                                       *)
(***************************************************************************)
VARIABLES cfgRounds, pc, escrow, derivs, fin, ret, att, call, prev, feeCall,
          offline, net, asn1Schemas

vars ==
  <<cfgRounds, pc, escrow, derivs, fin, ret, att, call, prev, feeCall, offline, net,
    asn1Schemas>>

\* ---- the inputs the checks draw from ----
rA == S(<<"r", "A">>)

rB == S(<<"r", "B">>)

Passw1 == S(<<"p", "a", "s", "s", "w", "1">>)

Passw2 == S(<<"p", "a", "s", "s", "w", "2">>)

Blank == S(<<" ", " ", " ">>)

\* hex texts of a 32 byte key, of the key with one bit of its first byte
\* flipped, of a 31 byte key, and of the key followed by two non-hex letters
KeyA == Rep(S(<<"a", "B">>), 32)

KeyB == S(<<"a", "a">>) \o Rep(S(<<"a", "b">>), 31)

KeyShort == Rep(S(<<"a", "b">>), 31)

KeyGarbage == Rep(S(<<"a", "b">>), 32) \o S(<<"z", "z">>)

\* what crypto.randomBytes(32) and the 16 random bytes of bcrypt.genSaltSync
\* may be in one call
Rnds ==
  {[bytes |-> [i \in 1..32 |-> [b |-> 7]], seed |-> [i \in 1..16 |-> 17]],
   [bytes |-> [i \in 1..32 |-> [b |-> 9]], seed |-> [i \in 1..16 |-> 200]]}

\* a salt bcrypt accepts, one whose last character no encoder writes, and one
\* bcrypt rejects
SaltGood == genSaltSync(10, [i \in 1..16 |-> 33])

SaltOdd == SubSeq(SaltGood, 1, 28) \o S(<<"Z">>)

SaltBad == S(<<"$", "2", "b", "$", "1", "0", "$", "x">>)

\* common_settings.js: ESCROW_CONDITION_BCRYPT_HASH_ROUNDS as shipped, and
\* the values the setting is given in the checked runs ("4..31, default: 10")
ESCROW_CONDITION_BCRYPT_HASH_ROUNDS == 10

\* common_settings.js: OFFLINE as shipped
OFFLINE == FALSE

ConfiguredRounds == {4, ESCROW_CONDITION_BCRYPT_HASH_ROUNDS, 12}

CreateAccounts == {Str(rA)}

FinishAccounts == {Str(rA), Str(rB)}

\* the lines typed at the prompts of escrowAskPasswordProtection
CreateAnswers ==
  {[protect |-> <<>>, kind |-> <<>>, password |-> <<<<>>>>, confirm |-> <<<<>>>>,
    randomSalt |-> <<>>, show |-> <<<<>>>>],
   [protect |-> S(<<"Y", "e", "s">>), kind |-> <<>>, password |-> <<<<>>>>,
    confirm |-> <<<<>>>>, randomSalt |-> <<>>, show |-> <<<<>>>>]}
  \cup
  {[protect |-> S(<<"y">>), kind |-> S(<<"p">>), password |-> pw, confirm |-> cf,
    randomSalt |-> rs, show |-> sh] :
     pw \in {<<<<>>>>, <<Passw1>>, <<S(<<"a", "b", "c">>), Passw2 \o S(<<" ">>)>>},
     cf \in {<<Passw1>>, <<Passw2>>},
     rs \in {<<>>, S(<<"y">>)},
     sh \in {<<<<>>>>, <<S(<<"y">>)>>, <<S(<<"n">>)>>}}

\* ---- escrowPasswordProtectionOnRequest({ account, skipAskCancelAfter: true }),
\*      the call escrow_self.js makes for an escrow that has a cancel time ----
Create(account, a, rnd1, rnd2) ==
  /\ pc = "idle"
  /\ \E r \in {escrowPasswordProtectionOnRequest(account, a, cfgRounds, rnd1, rnd2)} :
        IF Threw(r) \/ Exited(r)
        THEN /\ pc' = "crashed"
             /\ ret' = r
             /\ UNCHANGED <<escrow, derivs, asn1Schemas>>
        ELSE /\ pc' = "created"
             /\ escrow' = [account |-> account, answers |-> r.ret]
             /\ derivs' = r.derivs
             /\ ret' = r.ret
             /\ asn1Schemas' = SchemasCached(asn1Schemas, r.derivs # <<>>, FALSE)
  /\ UNCHANGED <<offline, net, cfgRounds, fin, att, call, prev, feeCall>>

\* the condition texts the finish tool may be given for an escrow
TestConditions(e) ==
  {Undef, Str(toUpperCase(Sha256condition([NoParams EXCEPT !.existingPreimage = Str(KeyA)],
                                          NoRandom).hexCondition))}
  \cup (IF ~IsUndef(e) /\ e.answers.protect
        THEN {Str(toUpperCase(e.answers.condition.hexCondition))}
        ELSE {})

\* ---- escrowFinishFulfillmentRequest({ escrowSrcAccountAddress,
\*      escrowTestCondition }) up to its loop ----
StartFinish(account, test) ==
  /\ pc \in {"idle", "created"}
  /\ pc' = "finish"
  /\ fin' = [account |-> account, escrowTestCondition |-> test, i |-> 0,
             secret |-> Undef, shaCondition |-> Undef]
  /\ UNCHANGED <<asn1Schemas, offline, net, cfgRounds, escrow, derivs, ret, att, call, prev,
                 feeCall>>

\* the lines typed at the first prompts of a pass
FinishEntries(e) ==
  LET none == [isProtected |-> <<<<>>>>, secret |-> <<<<>>>>, password |-> <<<<>>>>,
               salt |-> <<>>]
      keys == {<<<<>>>>, <<KeyA>>, <<KeyB>>, <<KeyShort>>, <<KeyGarbage>>}
              \cup (IF ~IsUndef(e) /\ e.answers.protect
                    THEN {<<toUpperCase(e.answers.condition.hexSecretPreimage)>>}
                    ELSE {})
      salts == {<<>>, SaltBad}
               \cup (IF ~IsUndef(e) /\ e.answers.protect /\ Truthy(e.answers.condition.salt)
                     THEN {e.answers.condition.salt.str \o S(<<" ">>)}
                     ELSE {})
  IN {none, [none EXCEPT !.isProtected = <<S(<<"n">>)>>]}
     \cup {[none EXCEPT !.isProtected = <<S(<<"K", "e", "y">>)>>, !.secret = k] : k \in keys}
     \cup {[none EXCEPT !.isProtected = <<S(<<"p">>)>>, !.password = pw, !.salt = sl] :
             pw \in {<<<<>>>>, <<Passw1>>, <<Passw2>>}, sl \in salts}

\* the lines typed at the last prompts of a pass
FinishAnswers ==
  {[cont |-> <<c>>, again |-> <<<<>>>>] : c \in {<<>>, S(<<"y">>)}}
  \cup {[cont |-> <<S(<<"n">>)>>, again |-> <<g>>] :
          g \in {<<>>, S(<<"Y", "E", "S">>), S(<<"n">>)}}

\* how often the user of a checked run asks to try again
MaxRetries == 1

\* ---- one pass of the loop of escrowFinishFulfillmentRequest, the lines
\*      typed at its prompts taken from entries and FinishAnswers, in a run
\*      whose user asks to try again at most retries times ----
FinishAttemptOf(entries, retries) ==
  /\ pc = "finish"
  /\ \E e \in entries :
       \E d \in {PassDerivation(fin, e, rnd) : rnd \in Rnds}, ans \in FinishAnswers :
         \E o \in {FinishPass(fin, [isProtected |-> e.isProtected, secret |-> e.secret,
                                    password |-> e.password, salt |-> e.salt,
                                    cont |-> ans.cont, again |-> ans.again], d)} :
               /\ o.next = "loop" => fin.i < retries
               /\ att' = o.att
               /\ asn1Schemas' =
                    SchemasCached(asn1Schemas, d # <<>> /\ ~Threw(d[1]),
                                  "preimageSize" \in DOMAIN o.ret)
               /\ IF o.next = "loop"
                  THEN /\ pc' = "finish"
                       /\ fin' = [fin EXCEPT !.i = fin.i + 1, !.secret = o.secret,
                                             !.shaCondition = o.shaCondition]
                       /\ ret' = ret
                  ELSE /\ pc' = IF o.next = "return" THEN "returned" ELSE "crashed"
                       /\ fin' = [fin EXCEPT !.secret = o.secret,
                                             !.shaCondition = o.shaCondition]
                       /\ ret' = o.ret
  /\ UNCHANGED <<offline, net, cfgRounds, escrow, derivs, call, prev, feeCall>>

FinishAttempt == FinishAttemptOf(FinishEntries(escrow), MaxRetries)

Init ==
  /\ cfgRounds \in ConfiguredRounds
  /\ pc = "idle"
  /\ escrow = Undef
  /\ derivs = <<>>
  /\ fin = Undef
  /\ ret = Undef
  /\ att = Undef
  /\ call = Undef
  /\ prev = Undef
  /\ feeCall = Undef
  /\ offline = OFFLINE
  /\ net = NetIdle
  /\ asn1Schemas = NoSchemas

Next ==
  \/ \E account \in CreateAccounts, a \in CreateAnswers, rnd1 \in Rnds, rnd2 \in Rnds :
       Create(account, a, rnd1, rnd2)
  \/ \E account \in FinishAccounts, test \in TestConditions(escrow) : StartFinish(account, test)
  \/ FinishAttempt

Spec == Init /\ [][Next]_vars

\* ---- the finish loop on its own: a user who may ask to try again as often
\*      as the loop allows, entering a key, a key too short or nothing ----
NextLoop ==
  \/ \E test \in TestConditions(escrow) : StartFinish(Str(rA), test)
  \/ FinishAttemptOf({[isProtected |-> <<S(<<"k">>)>>, secret |-> <<k>>,
                       password |-> <<<<>>>>, salt |-> <<>>] :
                        k \in {<<>>, KeyB, KeyShort}}, MaxAttempts)

\* a pass of the loop, whatever is typed at its prompts: any step taken while
\* the call waits at the first prompt of a pass
AnyPass ==
  /\ pc = "finish"
  /\ pc' \in {"finish", "returned", "crashed"}
  /\ \/ UNCHANGED <<cfgRounds, escrow, derivs, fin, ret, att, call, prev, feeCall, offline,
                    net, asn1Schemas>>
     \/ TRUE

\* the prompts of a pass are answered in the end: a pass that is waiting for
\* its answers is carried out
SpecLoop == Init /\ [][NextLoop]_vars /\ WF_vars(AnyPass)

(***************************************************************************)
(* Direct calls of the exported functions                                  *)
(***************************************************************************)
InitCalls ==
  /\ cfgRounds = ESCROW_CONDITION_BCRYPT_HASH_ROUNDS
  /\ pc = "idle"
  /\ escrow = Undef
  /\ derivs = <<>>
  /\ fin = Undef
  /\ ret = Undef
  /\ att = Undef
  /\ call = Undef
  /\ prev = Undef
  /\ feeCall = Undef
  /\ offline = OFFLINE
  /\ net = NetIdle
  /\ asn1Schemas = NoSchemas

\* the arguments of the checked calls of Sha256condition
EngineParams ==
  [existingPreimage : {Undef, Str(<<>>), Str(KeyA), Str(KeyA \o S(<<"c", "d">>)),
                       Str(KeyShort), Str(KeyGarbage), Str(S(<<"z", "z">>)),
                       Buf(<<>>), Buf([i \in 1..31 |-> [b |-> 1]]),
                       Buf([i \in 1..32 |-> [b |-> 1]])},
   bcryptFromSecret : {Undef, Null, Str(<<>>), Str(Blank), Str(Passw1),
                       Str(S(<<" ">>) \o Passw2)},
   bcryptExistingSalt : {Undef, Str(<<>>), Str(SaltGood), Str(SaltOdd), Str(SaltBad)},
   bcryptHashRounds : {Undef, Num(4), Num(12), Num(31), Num(40)},
   bcryptUsePermanentSaltFromSecret : {Undef, Bool(TRUE)},
   bcryptPermanentSaltPepper : {Undef, Str(rA)}]

\* ---- Sha256condition(p), once ----
EngineCall(p, rnd) ==
  /\ call = Undef
  /\ \E out \in {Sha256condition(p, rnd)} :
       /\ call' = [p |-> p, rnd |-> rnd, out |-> out]
       /\ asn1Schemas' = SchemasCached(asn1Schemas, ~Threw(out), FALSE)
  /\ UNCHANGED <<offline, net, cfgRounds, pc, escrow, derivs, fin, ret, att, prev, feeCall>>

NextEngine == \E p \in EngineParams, rnd \in Rnds : EngineCall(p, rnd)

SpecEngine == InitCalls /\ [][NextEngine]_vars

\* the arguments of the checked pairs of permanent-salt calls
PairParams ==
  [existingPreimage : {Undef},
   bcryptFromSecret : {Str(Passw1), Str(Passw2)},
   bcryptExistingSalt : {Undef},
   bcryptHashRounds : {Undef, Num(12)},
   bcryptUsePermanentSaltFromSecret : {Bool(TRUE)},
   bcryptPermanentSaltPepper : {Undef, Str(<<>>), Str(rA), Str(S(<<" ">>) \o rA), Str(rB)}]

\* ---- Sha256condition(p), the first and the second call of a pair ----
PairCall(p, rnd) ==
  /\ prev = Undef
  /\ prev' = call
  /\ \E out \in {Sha256condition(p, rnd)} :
       /\ call' = [p |-> p, rnd |-> rnd, out |-> out]
       /\ asn1Schemas' = SchemasCached(asn1Schemas, ~Threw(out), FALSE)
  /\ UNCHANGED <<offline, net, cfgRounds, pc, escrow, derivs, fin, ret, att, feeCall>>

NextPair == \E p \in PairParams, rnd \in Rnds : PairCall(p, rnd)

SpecPair == InitCalls /\ [][NextPair]_vars

\* the longest preimage of the checked fee computations, in bytes
MaxPreimageLen == 50

Networks == {S(<<"t", "e", "s", "t">>), S(<<"P", "U", "B">>), S(<<"B", "A", "D">>)}

\* ---- Fee(network, { withCondition, preimageSize }), once ----
FeeCall(network, withCondition, preimageSize) ==
  /\ feeCall = Undef
  /\ feeCall' = [network |-> network, withCondition |-> withCondition,
                 preimageSize |-> preimageSize,
                 out |-> Fee(network, withCondition, preimageSize)]
  /\ UNCHANGED <<asn1Schemas, offline, net, cfgRounds, pc, escrow, derivs, fin, ret, att, call,
                 prev>>

\* ---- Sha256condition({ existingPreimage: <Buffer of n bytes> }), once ----
CostCall(n, rnd) ==
  /\ call = Undef
  /\ \E p \in {[NoParams EXCEPT !.existingPreimage = Buf([i \in 1..n |-> [b |-> 1]])]} :
       \E out \in {Sha256condition(p, rnd)} :
         /\ call' = [p |-> p, rnd |-> rnd, out |-> out]
         /\ asn1Schemas' = SchemasCached(asn1Schemas, ~Threw(out), FALSE)
  /\ UNCHANGED <<offline, net, cfgRounds, pc, escrow, derivs, fin, ret, att, prev, feeCall>>

NextFee ==
  \/ \E network \in Networks, withCondition \in BOOLEAN,
        preimageSize \in {Undef} \cup {Num(n) : n \in 0..MaxPreimageLen} :
       FeeCall(network, withCondition, preimageSize)
  \/ \E n \in 0..MaxPreimageLen, rnd \in Rnds : CostCall(n, rnd)

SpecFee == InitCalls /\ [][NextFee]_vars

\* two fingerprints: SHA-256 of a key of 32 bytes and of one of 33
HashA == SHA256(BufferFromHex(KeyA))

HashB == SHA256(BufferFromHex(KeyA \o S(<<"c", "d">>)))

\* the arguments of the checked Condition encodings
CodecParams ==
  [hash : {Undef, Null, Buf(HashA), Buf(HashB)},
   typeId : {Undef, Null, Num(0), Num(1), Num(2), Num(3), Num(4), Num(5)},
   cost : {Undef, Null, Num(0), Num(32), Num(33), Num(200), Num(300)},
   subtypes : {<<>>, <<"preimage-sha-256">>}]

\* ---- new Condition(c).serializeBinary(), the first and the second of a pair ----
CodecCall(c) ==
  /\ prev = Undef
  /\ prev' = call
  /\ \E out \in {ConditionSerializeBinary(Condition(c.hash, c.typeId, c.cost, c.subtypes))} :
       /\ call' = [c |-> c, out |-> out]
       /\ asn1Schemas' = SchemasCached(asn1Schemas, ~Threw(out), FALSE)
  /\ UNCHANGED <<offline, net, cfgRounds, pc, escrow, derivs, fin, ret, att, feeCall>>

NextCodec == \E c \in CodecParams : CodecCall(c)

SpecCodec == InitCalls /\ [][NextCodec]_vars

\* ---- new Fulfillment(f).serializeBinary(), the first and the second of a pair ----
FulfillmentCall(f) ==
  /\ prev = Undef
  /\ prev' = call
  /\ \E out \in {FulfillmentSerializeBinary(f.preimage, f.typeId)} :
       /\ call' = [f |-> f, out |-> out]
       /\ asn1Schemas' = SchemasCached(asn1Schemas, FALSE, ~Threw(out))
  /\ UNCHANGED <<offline, net, cfgRounds, pc, escrow, derivs, fin, ret, att, feeCall>>

\* pairs of encodings of conditions and fulfillments, in any order
NextModule ==
  \/ NextCodec
  \/ \E f \in [preimage : {Undef, Str(KeyA), Buf(<<>>), Buf(BufferFromHex(KeyA))},
                typeId : {Undef, Num(0), Num(1)}] :
       FulfillmentCall(f)

SpecModule == InitCalls /\ [][NextModule]_vars

\* the byte values of the checked encodings
EncodeBytes == {0, 63, 255}

\* a salt seed of 16 bytes that is zero except for one byte
SeedWith(i, v) == [k \in 1..BCRYPT_MAXSALT |-> IF k = i THEN v ELSE 0]

\* the inputs of the checked encodings: every short array, and salt seeds
EncodeInputs ==
  UNION {[1..n -> EncodeBytes] : n \in 0..4}
    \cup {SeedWith(i, v) : i \in 1..BCRYPT_MAXSALT, v \in {0, 1, 2, 3, 64, 255}}

\* ---- bcryptEncodeBase64(Buffer.alloc(_SALT_LEN), in, in.length), the first
\*      and the second of a pair ----
EncodeCall(in) ==
  /\ prev = Undef
  /\ prev' = call
  /\ call' = [in |-> in,
              out |-> bcryptEncodeBase64([i \in 1..SALT_LEN |-> [b |-> 0]], in, Len(in))]
  /\ UNCHANGED <<asn1Schemas, offline, net, cfgRounds, pc, escrow, derivs, fin, ret, att, feeCall>>

NextEncode == \E in \in EncodeInputs : EncodeCall(in)

SpecEncode == InitCalls /\ [][NextEncode]_vars

\* the checked transactions: signed blobs of some decoded fields, and a text
\* that is no blob
Transactions ==
  {[blob |-> tx] : tx \in [Account : {Undef, Str(rA)}, Sequence : {Num(0), Num(5)},
                           LastLedgerSequence : {Undef, Num(100)}]}
    \cup {Str(S(<<"z", "z">>))}

\* fail(message): process.exit(1)
NetExit(n, err) == [n EXCEPT !.at = "exit", !.code = 1, !.err = err]

\* client.submit(transaction, { failHard })
Sent(n) == [n EXCEPT !.at = "sent", !.submits = n.submits + 1]

\* ---- Submit(transaction, o) up to its first prompt ----
SubmitStart(transaction, o) ==
  /\ net.at = "idle"
  /\ LET address == IF ~Truthy(o.address) /\ Truthy(o.network)
                    THEN XrplServerAddress(o.network) ELSE o.address
         started == [NetIdle EXCEPT !.op = "Submit", !.tx = transaction,
                                    !.p = [o EXCEPT !.address = address]]
     IN net' = IF Exited(address) \/ ~Truthy(address) \/ offline
               THEN NetExit(started, Undef)
               ELSE [started EXCEPT !.at = "confirm"]
  /\ UNCHANGED <<asn1Schemas, offline, cfgRounds, pc, escrow, derivs, fin, ret, att, call, prev, feeCall>>

\* a variant that goes on to submit without the second prompt
SubmitConfirmedNoSecondPrompt(n, slow, connects, info) ==
  LET txDecoded == decode(n.tx)
  IN IF Threw(txDecoded) THEN NetExit(n, txDecoded)
     ELSE IF ~connects THEN NetExit([n EXCEPT !.clients = 1], [throw |-> "Error"])
     ELSE IF Exited(info) THEN NetExit([n EXCEPT !.clients = 1, !.queries = 1], Undef)
     ELSE Sent([n EXCEPT !.clients = 1, !.queries = 1, !.info = info,
                         !.validation = SequencesExpiration(info, txDecoded.Sequence,
                                                            txDecoded.LastLedgerSequence)])

\* Submit after a yes at its first prompt: decode, connect, check the
\* sequences when asked to or when the answer took more than six seconds
\* (slow), then submit or ask again
SubmitConfirmed(n, slow, connects, info) ==
  LET txDecoded == decode(n.tx)
      connected == [n EXCEPT !.clients = 1]
      verifySequencesValid == Truthy(n.p.validateSequence) \/ slow
      validation == SequencesExpiration(info, txDecoded.Sequence, txDecoded.LastLedgerSequence)
      checked == [connected EXCEPT !.queries = 1, !.info = info, !.validation = validation]
  IN IF Threw(txDecoded) THEN NetExit(n, txDecoded)
     ELSE IF ~connects THEN NetExit(connected, [throw |-> "Error"])
     ELSE IF ~(verifySequencesValid /\ Truthy(txDecoded.Account)) THEN Sent(connected)
     ELSE IF Exited(info) THEN NetExit([connected EXCEPT !.queries = 1], Undef)
     ELSE IF IsUndef(validation.ledgerSeq) THEN NetExit(checked, TypeError)
     ELSE IF Truthy(validation.expired) THEN [checked EXCEPT !.at = "confirmAnyway"]
     ELSE Sent(checked)

\* ---- the answer at 'Type [Y]es to continue and submit' ----
SubmitConfirm(answer, slow, connects, info) ==
  /\ net.op = "Submit" /\ net.at = "confirm"
  /\ \E n \in {[net EXCEPT !.answers = Append(@, answer)]} :
       net' = IF ~IsYes(answer) THEN NetExit(n, Undef)
              ELSE SubmitConfirmed(n, slow, connects, info)
  /\ UNCHANGED <<asn1Schemas, offline, cfgRounds, pc, escrow, derivs, fin, ret, att, call, prev, feeCall>>

\* ---- the answer at 'Type [Y]es to continue and submit ... anyway' ----
SubmitConfirmAnyway(awr) ==
  /\ net.op = "Submit" /\ net.at = "confirmAnyway"
  /\ \E n \in {[net EXCEPT !.answers = Append(@, awr)]} :
       net' = IF ~IsYes(awr) THEN NetExit(n, Undef) ELSE Sent(n)
  /\ UNCHANGED <<asn1Schemas, offline, cfgRounds, pc, escrow, derivs, fin, ret, att, call, prev, feeCall>>

\* ---- the response of the ledger: quit() on tesSUCCESS, fail otherwise ----
SubmitResponse(succeeded) ==
  /\ net.op = "Submit" /\ net.at = "sent"
  /\ net' = IF succeeded THEN [net EXCEPT !.at = "exit", !.code = 0]
            ELSE NetExit(net, Undef)
  /\ UNCHANGED <<asn1Schemas, offline, cfgRounds, pc, escrow, derivs, fin, ret, att, call, prev, feeCall>>

\* a variant that connects in offline mode too
XrplClientIgnoresOffline(off, n, network, xrplAddress, connects) ==
  LET address == IF ~Truthy(xrplAddress) THEN XrplServerAddress(network) ELSE xrplAddress
  IN IF Exited(address) THEN NetExit(n, Undef)
     ELSE IF ~connects THEN NetExit([n EXCEPT !.clients = @ + 1], [throw |-> "Error"])
     ELSE [n EXCEPT !.clients = @ + 1, !.at = "connected"]

\* XrplClient({ network, xrplAddress }) called in state n of an operation
XrplClient(off, n, network, xrplAddress, connects) ==
  LET address == IF ~Truthy(xrplAddress) THEN XrplServerAddress(network) ELSE xrplAddress
  IN IF off THEN NetExit(n, Undef)
     ELSE IF Exited(address) THEN NetExit(n, Undef)
     ELSE IF ~connects THEN NetExit([n EXCEPT !.clients = @ + 1], [throw |-> "Error"])
     ELSE [n EXCEPT !.clients = @ + 1, !.at = "connected"]

\* ---- XrplClient({ network, xrplAddress }) ----
XrplClientCall(network, xrplAddress, connects) ==
  /\ net.at = "idle"
  /\ net' = XrplClient(offline,
                       [NetIdle EXCEPT !.op = "XrplClient",
                                       !.p = [network |-> network, xrplAddress |-> xrplAddress]],
                       network, xrplAddress, connects)
  /\ UNCHANGED <<asn1Schemas, offline, cfgRounds, pc, escrow, derivs, fin, ret, att, call, prev, feeCall>>

\* AccountLastSequence({ account, network, xrplAddress, client }) called in
\* state n: the given client or a new one asks for the account info
AccountLastSequence(off, n, o, info, connects) ==
  LET asked(c) == IF c.at = "exit" THEN c
                  ELSE IF Exited(info) THEN NetExit([c EXCEPT !.queries = @ + 1], Undef)
                  ELSE [c EXCEPT !.queries = @ + 1, !.info = info, !.at = "asked"]
  IN asked(IF ~IsUndef(o.client) THEN n
           ELSE XrplClient(off, n, o.network, o.xrplAddress, connects))

\* ---- AddTransactionSequences(txData, o), a the lines typed at its prompts ----
AddTransactionSequences(txData, o, a, info, connects) ==
  /\ net.at = "idle"
  /\ UNCHANGED <<asn1Schemas, offline, cfgRounds, pc, escrow, derivs, fin, ret, att, call, prev, feeCall>>
  /\ net' =
        LET off == offline
            n0 == [NetIdle EXCEPT !.op = "AddTransactionSequences", !.p = o, !.tx = txData]
            manually == off \/ ~Truthy(o.account)
                            \/ (IsUndef(o.client) /\ ~Truthy(o.network) /\ ~Truthy(o.xrplAddress))
            validInput == ~isNaN(o.ledgerSeqIndex) /\ ~isNaN(o.accSequence)
            timeout0 == IF isNaN(o.ledgerTimeout) THEN Num(1) ELSE Number(o.ledgerTimeout)
            asksTimeout == Truthy(Str(a.ledgerLastIndex)) /\ ~isNaN(Str(a.ledgerLastIndex))
            timeout1 == IF asksTimeout /\ Len(a.ledgerIndexTimeout) > 0
                                       /\ ~isNaN(Str(a.ledgerIndexTimeout))
                        THEN Number(Str(a.ledgerIndexTimeout)) ELSE timeout0
            typed == [accountSequence |-> IF Len(a.accountSequence) > 0
                                          THEN Str(a.accountSequence) ELSE Undef,
                      ledgerLastIndex |-> IF asksTimeout THEN Number(Str(a.ledgerLastIndex))
                                          ELSE Undef]
            done(n, seqInfo, timeout) ==
              [n EXCEPT !.at = "done",
                        !.tx = addAccountSequence(addLastLedgerIndexTimeout(txData, seqInfo, timeout),
                                                  seqInfo)]
            fetched(n) == IF n.at = "exit" THEN n ELSE done(n, n.info, timeout0)
        IN IF validInput
           THEN done(n0, [accountSequence |-> Number(o.accSequence),
                          ledgerLastIndex |-> Number(o.ledgerSeqIndex)], timeout0)
           ELSE IF ~manually THEN fetched(AccountLastSequence(off, n0, o, info, connects))
           ELSE done([n0 EXCEPT !.answers =
                        <<a.accountSequence, a.ledgerLastIndex>>
                          \o (IF asksTimeout THEN <<a.ledgerIndexTimeout>> ELSE <<>>)],
                     typed, timeout1)

InitNet ==
  /\ cfgRounds = ESCROW_CONDITION_BCRYPT_HASH_ROUNDS
  /\ pc = "idle"
  /\ escrow = Undef
  /\ derivs = <<>>
  /\ fin = Undef
  /\ ret = Undef
  /\ att = Undef
  /\ call = Undef
  /\ prev = Undef
  /\ feeCall = Undef
  /\ offline \in BOOLEAN
  /\ net = NetIdle
  /\ asn1Schemas = NoSchemas

\* the calls of the checked runs.  AccountLastSequence may end in exit (no
\* account info) or return the account's sequence and the ledger index
NextNet ==
  \/ \E transaction \in Transactions,
        o \in [network : {Undef, Str(S(<<"t", "e", "s", "t">>)), Str(S(<<"B", "A", "D">>))},
               address : {Undef, Str(S(<<"w", "s", "s", ":", "x">>))},
               validateSequence : {Undef, Bool(TRUE)},
               failHard : {Undef}] :
       SubmitStart(transaction, o)
  \/ \E answer \in {S(<<"y">>), S(<<"Y", "E", "S">>), S(<<"n">>), <<>>, S(<<" ", "y">>)},
        slow \in BOOLEAN, connects \in BOOLEAN,
        info \in {Exit} \cup [accountSequence : {Num(5), Num(6)},
                              ledgerLastIndex : {Num(99), Num(100), Num(101)}] :
       SubmitConfirm(answer, slow, connects, info)
  \/ \E awr \in {S(<<"y">>), S(<<"Y", "E", "S">>), S(<<"n">>), <<>>, S(<<"y", "e", "s", "!">>)} :
       SubmitConfirmAnyway(awr)
  \/ \E succeeded \in BOOLEAN : SubmitResponse(succeeded)
  \/ \E network \in {Undef, Str(S(<<"t", "e", "s", "t">>)), Str(S(<<"B", "A", "D">>))},
        xrplAddress \in {Undef, Str(S(<<"w", "s", "s", ":", "x">>))}, connects \in BOOLEAN :
       XrplClientCall(network, xrplAddress, connects)
  \/ \E txData \in [Sequence : {Undef, Num(5)}, LastLedgerSequence : {Undef, Num(100)}],
        o \in [account : {Undef, Str(rA)}, ledgerTimeout : {Undef, Num(20)},
               ledgerSeqIndex : {Undef, Num(90)}, accSequence : {Undef, Num(7)},
               network : {Undef, Str(S(<<"t", "e", "s", "t">>))}, xrplAddress : {Undef},
               client : {Undef, [object |-> "Client"]}],
        a \in [accountSequence : {<<>>, S(<<"7">>), S(<<"x">>)},
               ledgerLastIndex : {<<>>, S(<<"9", "0">>), S(<<"x">>)},
               ledgerIndexTimeout : {<<>>, S(<<"3", "0">>)}],
        info \in {Exit, [accountSequence |-> Num(5), ledgerLastIndex |-> Num(99)]},
        connects \in BOOLEAN :
       AddTransactionSequences(txData, o, a, info, connects)

SpecNet == InitNet /\ [][NextNet]_vars

(***************************************************************************)
(* The claims                                                              *)
(***************************************************************************)
\* whether a call of Sha256condition is recorded and returned a result
Returned(c) == ~IsUndef(c) /\ ~Threw(c.out)

\* the least k with 16 * k >= n
Blocks16(n) == CHOOSE k \in 0..n : 16 * k >= n /\ (k = 0 \/ 16 * (k - 1) < n)

\* C1: every result of Sha256condition carries the encoding of a
\* PREIMAGE-SHA-256 condition: the choice tag of type 0, a 32 byte fingerprint
\* that is SHA-256 of the returned preimage, a cost that is the byte length
\* of that preimage, and no subtypes field.
C1_ConditionIsPreimageSha256 ==
  Returned(call) =>
    LET preimage == BufferFromHex(call.out.hexSecretPreimage)
        der == BufferFromHex(call.out.hexCondition)
    IN /\ Len(der) = 8
       /\ der[1] = [b |-> 160] /\ der[2] = [b |-> 37]
       /\ der[3] = [b |-> 128] /\ der[4] = [b |-> 32]
       /\ <<der[5]>> = SHA256(preimage)
       /\ der[6] = [b |-> 129] /\ der[7] = [b |-> 1]
       /\ der[8] = [b |-> Length(preimage)]
       /\ call.out.preimageLength = Length(preimage)

\* C1 witness: a result whose preimage is longer than the 32 bytes the
\* function draws or derives itself
C1_Witness ==
  /\ Returned(call)
  /\ call.out.preimageLength = 33
  /\ IsStr(call.p.bcryptFromSecret)

\* the supplied existingPreimage of a call decodes to less than 32 bytes
ShortExisting(p) ==
  \/ IsBuf(p.existingPreimage) /\ Length(p.existingPreimage.buf) \in 1..31
  \/ /\ IsStr(p.existingPreimage)
     /\ Length(p.existingPreimage.str) > 0
     /\ Length(BufferFromHex(p.existingPreimage.str)) < 32

\* C5: no result of Sha256condition has a preimage of less than 32 bytes, and
\* a supplied existingPreimage that decodes to less than 32 bytes raises
\* InternalError.
C5_NoShortPreimage ==
  ~IsUndef(call) =>
    /\ ~Threw(call.out) =>
         /\ Length(BufferFromHex(call.out.hexSecretPreimage)) >= 32
         /\ call.out.preimageLength >= 32
    /\ ShortExisting(call.p) => call.out = InternalError

\* C5 witness: a 31 byte key given as hex text was refused
C5_Witness ==
  /\ ~IsUndef(call)
  /\ call.p.existingPreimage = Str(KeyShort)
  /\ call.out = InternalError

\* password mode is requested with an empty or blank password and no
\* existing preimage
BlankPassword(p) ==
  /\ IsStr(p.bcryptFromSecret)
  /\ Len(Trim(p.bcryptFromSecret.str)) = 0
  /\ \/ IsUndef(p.existingPreimage)
     \/ IsStr(p.existingPreimage) /\ Length(p.existingPreimage.str) = 0
     \/ IsBuf(p.existingPreimage) /\ Length(p.existingPreimage.buf) = 0

\* C9: a call in password mode with an empty or whitespace-only password and
\* no existing preimage raises MissingDataError.
C9_BlankPasswordIsMissingData ==
  (~IsUndef(call) /\ BlankPassword(call.p)) => call.out = MissingDataError

\* C9 witness: such a call was made and raised an error
C9_Witness ==
  /\ ~IsUndef(call)
  /\ BlankPassword(call.p)
  /\ call.p.bcryptFromSecret = Str(Blank)
  /\ Threw(call.out)

\* the call derived from a password with a permanent salt
PermanentMode(c) ==
  /\ ~IsUndef(c)
  /\ IsStr(c.p.bcryptFromSecret) /\ Len(Trim(c.p.bcryptFromSecret.str)) > 0
  /\ ~ShortExisting(c.p) /\ ~IsBuf(c.p.existingPreimage)
  /\ (IsStr(c.p.existingPreimage) => Length(c.p.existingPreimage.str) = 0)
  /\ ~Truthy(c.p.bcryptExistingSalt)
  /\ Truthy(c.p.bcryptUsePermanentSaltFromSecret)

\* C10 (the part that reachable states decide): a permanent-salt derivation
\* always returns a result, and hashing the probe with the salt of the result
\* echoes that salt; the self-check never fails.
C10_SelfCheckNeverFails ==
  PermanentMode(call) =>
    /\ ~Threw(call.out)
    /\ LET tmphash == hashSync(S(<<"t", "e", "s", "t">>), call.out.salt.str)
       IN ~Threw(tmphash) /\ SubSeq(tmphash.text, 1, 29) = call.out.salt.str

C10_Witness ==
  /\ PermanentMode(call)
  /\ call.p.bcryptHashRounds = Num(31)
  /\ ~Threw(call.out)

\* the pepper as the derivation uses it: trimmed, nothing when absent
UsedPepper(p) ==
  IF IsStr(p.bcryptPermanentSaltPepper) THEN Trim(p.bcryptPermanentSaltPepper.str) ELSE <<>>

\* two recorded calls with the same password and rounds
SameSecretAndRounds ==
  /\ Returned(prev) /\ Returned(call)
  /\ prev.p.bcryptFromSecret = call.p.bcryptFromSecret
  /\ prev.p.bcryptHashRounds = call.p.bcryptHashRounds

\* C3: two permanent-salt calls with the same password, pepper and rounds
\* return the same hexSecretPreimage and the same hexCondition, whatever
\* random salt each call drew as its template.
C3_Deterministic ==
  (SameSecretAndRounds /\ prev.p.bcryptPermanentSaltPepper = call.p.bcryptPermanentSaltPepper)
    => /\ prev.out.hexSecretPreimage = call.out.hexSecretPreimage
       /\ prev.out.hexCondition = call.out.hexCondition
       /\ prev.out.salt = call.out.salt

\* C3 witness: the two calls drew different random templates
C3_Witness ==
  /\ SameSecretAndRounds
  /\ prev.p = call.p
  /\ prev.rnd.seed # call.rnd.seed
  /\ call.p.bcryptPermanentSaltPepper = Str(rA)

\* C4 as stated: the same password and rounds with two distinct pepper values
\* give different preimages.
C4_DistinctPeppersDiffer ==
  (/\ SameSecretAndRounds
   /\ IsStr(prev.p.bcryptPermanentSaltPepper) /\ IsStr(call.p.bcryptPermanentSaltPepper)
   /\ prev.p.bcryptPermanentSaltPepper # call.p.bcryptPermanentSaltPepper)
    => prev.out.hexSecretPreimage # call.out.hexSecretPreimage

\* C4 amended: the same password and rounds give different preimages exactly
\* when the peppers differ after trimming, an absent pepper counting as the
\* empty one.
C4_TrimmedPeppersDiffer ==
  SameSecretAndRounds =>
    ((UsedPepper(prev.p) # UsedPepper(call.p))
       <=> (prev.out.hexSecretPreimage # call.out.hexSecretPreimage))

\* C4 witness: two accounts as peppers, two preimages
C4_Witness ==
  /\ SameSecretAndRounds
  /\ prev.p.bcryptPermanentSaltPepper = Str(rA)
  /\ call.p.bcryptPermanentSaltPepper = Str(rB)
  /\ prev.out.hexSecretPreimage # call.out.hexSecretPreimage

\* a recorded Fee call with a fulfillment on a known network
FeeCharged == ~IsUndef(feeCall) /\ feeCall.withCondition /\ ~Threw(feeCall.out)

\* C8 as stated: for every preimage length n the fee is 330 + 10 * ceil(n / 16)
\* in Fee and in Sha256condition's fulfillmentCostDrops.
C8_FeeForEveryLength ==
  /\ (FeeCharged /\ IsNum(feeCall.preimageSize))
       => feeCall.out = Num(330 + 10 * Blocks16(feeCall.preimageSize.num))
  /\ (~IsUndef(call) /\ Length(call.p.existingPreimage.buf) > 0)
       => /\ ~Threw(call.out)
          /\ call.out.fulfillmentCostDrops
               = 330 + 10 * Blocks16(Length(call.p.existingPreimage.buf))

\* C8 amended: Fee charges 330 + 10 * ceil(n / 16) for every length n >= 1
\* (340, 350, 350, 360 for 16, 17, 32, 48) and 340 for a length of 0 or none;
\* Sha256condition returns for lengths of 32 and more only, and there its
\* fulfillmentCostDrops is the same formula and agrees with Fee.
C8_FeeFormula ==
  /\ (FeeCharged /\ IsNum(feeCall.preimageSize) /\ feeCall.preimageSize.num >= 1)
       => /\ feeCall.out = Num(330 + 10 * Blocks16(feeCall.preimageSize.num))
          /\ feeCall.preimageSize.num = 16 => feeCall.out.num = 340
          /\ feeCall.preimageSize.num = 17 => feeCall.out.num = 350
          /\ feeCall.preimageSize.num = 32 => feeCall.out.num = 350
          /\ feeCall.preimageSize.num = 48 => feeCall.out.num = 360
  /\ (FeeCharged /\ ~Truthy(feeCall.preimageSize)) => feeCall.out = Num(340)
  /\ Returned(call)
       => /\ call.out.preimageLength >= 32
          /\ call.out.fulfillmentCostDrops = 330 + 10 * Blocks16(call.out.preimageLength)
  /\ (FeeCharged /\ Returned(call) /\ feeCall.preimageSize = Num(call.out.preimageLength))
       => feeCall.out = Num(call.out.fulfillmentCostDrops)
  /\ (~IsUndef(call) /\ Length(call.p.existingPreimage.buf) \in 1..31)
       => call.out = InternalError

\* C8 witness: both computations were made for a preimage of 48 bytes
C8_Witness ==
  /\ FeeCharged /\ Returned(call)
  /\ feeCall.preimageSize = Num(48)
  /\ call.out.preimageLength = 48

\* the escrow was created from a password
FromPassword == ~IsUndef(escrow) /\ Truthy(escrow.answers.secret)

\* the last pass of the finish loop entered the password of the escrow with
\* no salt, for the account of the escrow
SamePasswordNoSalt ==
  /\ FromPassword /\ ~Truthy(escrow.answers.randomSalt)
  /\ ~IsUndef(att) /\ att.kind = "password"
  /\ att.entered = escrow.answers.secret
  /\ ~Truthy(att.salt)
  /\ fin.account = escrow.account

\* C2: the condition of an escrow created in permanent-salt mode is derived
\* again at finish from the same password, no salt and the same account.
C2_FinishRegeneratesCondition ==
  SamePasswordNoSalt =>
    /\ att.derivs # <<>> /\ ~Threw(att.derivs[1])
    /\ att.derivs[1].hexCondition = escrow.answers.condition.hexCondition

\* C2 witness: the case with the rounds setting of 4, where both derivations
\* work with 10 rounds
C2_Witness ==
  /\ SamePasswordNoSalt
  /\ cfgRounds = 4
  /\ att.derivs[1].hexCondition = escrow.answers.condition.hexCondition

\* the creation path returned a password-derived condition only after a
\* second derivation with the salt of the first gave the same result
CreationRederived ==
  FromPassword =>
    /\ Len(derivs) = 2
    /\ escrow.answers.condition = derivs[1]
    /\ derivs[2].hexCondition = derivs[1].hexCondition
    /\ derivs[2].hexSecretPreimage = derivs[1].hexSecretPreimage
    /\ derivs[2].salt = derivs[1].salt
    /\ derivs[2].bcryptRounds = derivs[1].bcryptRounds

\* C6 as stated: on the creation path and on the finish path alike, a
\* password-derived result is returned only after a second derivation.
C6_RederivedOnBothPaths ==
  /\ CreationRederived
  /\ (/\ pc = "returned" /\ att.kind = "password" /\ Truthy(att.salt)
      /\ att.derivs # <<>> /\ ~IsUndef(ret))
       => Len(att.derivs) = 2

\* C6 amended: escrowPasswordProtectionOnRequest returns a password-derived
\* condition only after deriving a second time with the salt and rounds of
\* the first derivation and finding the same hexCondition and
\* hexSecretPreimage; escrowFinishFulfillmentRequest derives once per pass.
C6_RederivedOnCreation ==
  /\ CreationRederived
  /\ ~IsUndef(att) => Len(att.derivs) <= 1

\* C6 witness: a condition created with a random salt, where only the salt
\* handed to the second derivation makes the two agree
C6_Witness ==
  /\ FromPassword
  /\ Truthy(escrow.answers.randomSalt)
  /\ Len(derivs) = 2

\* the last pass compared a condition with the one the tool was given
Compared == ~IsUndef(att) /\ att.report \in {"match", "mismatch"}

\* the pass derived a condition from the secret entered in it
DerivedNow == ~IsUndef(att) /\ att.derivs # <<>> /\ ~Threw(att.derivs[1])

\* C7: a pass that compares reports a match exactly when the condition it
\* holds equals the given one ignoring letter case; a match is only reported
\* for a condition derived in the same pass from the entered secret; a
\* differing condition is reported as a mismatch; and a match returns the
\* fulfillment of the entered secret.
C7_MatchIffEqualIgnoringCase ==
  /\ Compared =>
       (att.report = "match"
          <=> toLowerCase(fin.shaCondition.hexCondition)
                = toLowerCase(fin.escrowTestCondition.str))
  /\ (Compared /\ att.report = "match") =>
       /\ DerivedNow
       /\ fin.shaCondition = att.derivs[1]
       /\ att.kind = "key" =>
            BufferFromHex(att.entered.str) = BufferFromHex(att.derivs[1].hexSecretPreimage)
       /\ pc = "returned"
       /\ ret.preimageSize = Num(att.derivs[1].preimageLength)
  /\ (DerivedNow /\ Truthy(fin.escrowTestCondition) /\ att.report # "none"
      /\ toLowerCase(att.derivs[1].hexCondition) # toLowerCase(fin.escrowTestCondition.str))
       => att.report = "mismatch"
  /\ (Compared /\ att.kind = "key" /\ att.entered = Str(KeyB)
      /\ fin.escrowTestCondition \in TestConditions(Undef))
       => att.report = "mismatch"

\* C7 witness: the key was entered in upper case against the condition in
\* lower case and matched, after a first try with one flipped bit
C7_Witness ==
  /\ Compared /\ att.report = "match"
  /\ fin.i = 1
  /\ att.kind = "key"
  /\ att.entered = Str(KeyA)
  /\ fin.escrowTestCondition.str # fin.shaCondition.hexCondition

\* the call was given an existingPreimage that it uses (one with a length)
UsesExisting(p) ==
  \/ IsBuf(p.existingPreimage) /\ Length(p.existingPreimage.buf) > 0
  \/ IsStr(p.existingPreimage) /\ Length(p.existingPreimage.str) > 0

\* the preimage of the call is the 32 bytes crypto.randomBytes drew in it
DrewPreimage(c) == ~UsesExisting(c.p) /\ IsUndef(c.p.bcryptFromSecret)

\* C11: the random flag of a result is true exactly when the preimage was
\* drawn as 32 random bytes in the call; a result whose preimage comes from
\* a password or from a supplied existingPreimage has random = FALSE.
C11_RandomIffDrawn ==
  Returned(call) =>
    /\ call.out.random <=> DrewPreimage(call)
    /\ DrewPreimage(call) => call.out.hexSecretPreimage = toStringHex(call.rnd.bytes)

\* C11 witness: a supplied key of 32 bytes and no password, as the key path
\* of escrowFinishFulfillmentRequest calls it; the result is flagged random
C11_Witness ==
  /\ Returned(call)
  /\ call.p.existingPreimage = Str(KeyA)
  /\ IsUndef(call.p.bcryptFromSecret)
  /\ call.out.random
  /\ call.out.hexSecretPreimage # toStringHex(call.rnd.bytes)

\* the result carries no salt, no saltRandom and no bcryptRounds
NoSaltFields(out) == IsUndef(out.salt) /\ IsUndef(out.saltRandom) /\ IsUndef(out.bcryptRounds)

\* the result carries a salt bcrypt accepts ($2a$ or $2b$, a two digit cost
\* factor in 4..31, 22 characters of the alphabet), with its two companions
SaltFields(out) ==
  /\ IsStr(out.salt) /\ BcryptSaltOk(out.salt.str)
  /\ IsBool(out.saltRandom)
  /\ IsNum(out.bcryptRounds)

\* C12 as stated: a result with random = TRUE has no salt, saltRandom and
\* bcryptRounds; every other result has a validly formatted salt.
C12_SaltIffNotRandom ==
  Returned(call) =>
    IF call.out.random THEN NoSaltFields(call.out) ELSE SaltFields(call.out)

\* C12 amended: a result with random = TRUE, and every result whose preimage
\* is a supplied existingPreimage, has no salt, saltRandom and bcryptRounds;
\* a result derived from a password has a validly formatted salt and
\* random = FALSE.
C12_SaltIffDerived ==
  Returned(call) =>
    /\ call.out.random => NoSaltFields(call.out)
    /\ UsesExisting(call.p) => NoSaltFields(call.out)
    /\ (~UsesExisting(call.p) /\ ~call.out.random) => SaltFields(call.out)
    /\ (~UsesExisting(call.p) /\ ~IsUndef(call.p.bcryptFromSecret))
         => ~call.out.random /\ SaltFields(call.out)

\* C12 witness: a password derivation with a supplied salt whose last
\* character no encoder writes; the result reports that salt
C12_Witness ==
  /\ Returned(call)
  /\ ~UsesExisting(call.p)
  /\ call.p.bcryptExistingSalt = Str(SaltOdd)
  /\ call.out.salt = Str(SaltOdd)
  /\ ~call.out.random

\* the call derives its preimage from a password
PasswordMode(c) ==
  /\ ~IsUndef(c) /\ ~UsesExisting(c.p)
  /\ IsStr(c.p.bcryptFromSecret) /\ Len(Trim(c.p.bcryptFromSecret.str)) > 0

\* C13: in every result of a password-mode call the reported bcryptRounds
\* is an integer in 4..31, and it is 10 when the requested value is absent
\* or below 10.
C13_RoundsInRange ==
  (PasswordMode(call) /\ Returned(call)) =>
    /\ IsNum(call.out.bcryptRounds)
    /\ call.out.bcryptRounds.num \in 4..31
    /\ (IsUndef(call.p.bcryptHashRounds) \/ call.p.bcryptHashRounds.num < 10)
         => call.out.bcryptRounds.num = 10

\* C13 witness: 4 rounds were requested and 10 are reported
C13_Witness ==
  /\ PasswordMode(call) /\ Returned(call)
  /\ call.p.bcryptHashRounds = Num(4)
  /\ call.out.bcryptRounds = Num(10)
  /\ SubSeq(call.out.salt.str, 1, 7) = S(<<"$", "2", "b", "$", "1", "0", "$">>)

\* bcrypt accepts the salt the call works with, if it is given one
SaltAccepted(p) == ~Truthy(p.bcryptExistingSalt) \/ BcryptSaltOk(p.bcryptExistingSalt.str)

\* C14: a password-mode call returns whenever bcrypt accepts the salt, and
\* its preimage is the last 32 characters of the 60 character hash text as
\* bytes: the last character of the salt as the hash text echoes it, then
\* the 31 hash characters.  The preimage length and the cost are 32.
C14_PreimageIsHashTail ==
  PasswordMode(call) =>
    /\ SaltAccepted(call.p) <=> Returned(call)
    /\ Returned(call) =>
         LET salt == call.out.salt.str
             prehash == HmacSha256Base64(salt, call.p.bcryptFromSecret.str)
             echo == BcryptSaltEcho(salt)
             hashChars == [h |-> "bcrypt", of |-> <<prehash, echo>>, size |-> 31]
             preimage == BufferFromHex(call.out.hexSecretPreimage)
         IN /\ Len(preimage) = 2
            /\ preimage[1] = [b |-> CharCode(echo[29].c)]
            /\ preimage[2] = [h |-> "utf8", of |-> <<<<hashChars>>>>, size |-> 31]
            /\ Length(preimage) = 32
            /\ call.out.preimageLength = 32
            /\ BufferFromHex(call.out.hexCondition)[8] = [b |-> 32]

\* C14 witness: a derivation at the highest cost factor, with the salt
\* derived from the password
C14_Witness ==
  /\ PasswordMode(call) /\ Returned(call)
  /\ call.p.bcryptHashRounds = Num(31)
  /\ Truthy(call.p.bcryptUsePermanentSaltFromSecret)
  /\ ~Truthy(call.p.bcryptExistingSalt)
  /\ call.out.preimageLength = 32

\* the head "$2b$NN$" bcrypt.genSaltSync writes for a rounds value
SaltHead(rounds) == SubSeq(genSaltSync(rounds, <<>>), 1, 7)

\* C15: the salt of a password derivation is, in this order of precedence,
\* the supplied existing salt as it is, else in permanent-salt mode the salt
\* derived from password and pepper, else the random salt drawn in the call;
\* saltRandom is TRUE in the last case only; and the reported salt is the
\* HMAC key of the pre-hash and the salt handed to the password hash.
C15_SaltPrecedence ==
  (PasswordMode(call) /\ Returned(call)) =>
    LET p == call.p
        out == call.out
        secret == p.bcryptFromSecret.str
        rounds == EffectiveRounds(p.bcryptHashRounds)
        hashChars == BufferFromHex(out.hexSecretPreimage)[2].of[1][1]
    IN /\ IF Truthy(p.bcryptExistingSalt)
          THEN out.salt = p.bcryptExistingSalt /\ out.saltRandom = Bool(FALSE)
          ELSE IF Truthy(p.bcryptUsePermanentSaltFromSecret)
          THEN /\ out.salt.str
                    = SaltHead(rounds) \o PermanentSaltBody(secret, p.bcryptPermanentSaltPepper)
               /\ out.saltRandom = Bool(FALSE)
          ELSE /\ out.salt.str = genSaltSync(rounds, call.rnd.seed)
               /\ out.saltRandom = Bool(TRUE)
       /\ hashChars.h = "bcrypt"
       /\ hashChars.of[1] = HmacSha256Base64(out.salt.str, secret)
       /\ hashChars.of[2] = BcryptSaltEcho(out.salt.str)

\* C15 witness: an existing salt was supplied together with a request for
\* the permanent salt, and the existing salt was used
C15_Witness ==
  /\ PasswordMode(call) /\ Returned(call)
  /\ call.p.bcryptExistingSalt = Str(SaltGood)
  /\ Truthy(call.p.bcryptUsePermanentSaltFromSecret)
  /\ call.out.salt = Str(SaltGood)
  /\ call.out.saltRandom = Bool(FALSE)

\* a field of a Condition is absent: undefined or null
Absent(v) == IsUndef(v) \/ IsNull(v)

\* a Condition encoding is recorded
Encoded(c) == ~IsUndef(c) /\ "c" \in DOMAIN c

\* C16: the encoding of a Condition whose fingerprint, cost or typeId is
\* absent (undefined or null), or whose typeId is no known kind, yields no
\* bytes and signals MissingDataError.
C16_AbsentFieldIsMissingData ==
  (/\ Encoded(call)
   /\ \/ Absent(call.c.hash) \/ Absent(call.c.cost) \/ Absent(call.c.typeId)
      \/ IsNum(call.c.typeId) /\ call.c.typeId.num \notin 0..4)
    => call.out = MissingDataError

\* C16 witness: an encoding without a fingerprint was refused
C16_Witness ==
  /\ Encoded(call)
  /\ IsUndef(call.c.hash) /\ call.c.typeId = Num(0) /\ call.c.cost = Num(32)
  /\ call.out = MissingDataError

\* the kinds of the Condition schema with a compound payload
CompoundKinds == {1, 2}

\* the fields of the recorded Condition are those of a valid one
ValidFields(c) ==
  /\ IsBuf(c.hash) /\ Length(c.hash.buf) = 32
  /\ IsNum(c.cost) /\ c.cost.num >= 0
  /\ IsNum(c.typeId)

\* C17: for each typeId in 0..4 the encoding is the CHOICE branch with the
\* context tag of the typeId, holding fingerprint and cost, and for kinds 1
\* and 2 the subtypes as well; a typeId outside 0..4 is refused as unknown.
C17_BranchByTypeId ==
  (Encoded(call) /\ ValidFields(call.c)) =>
    IF call.c.typeId.num \in 0..4
    THEN /\ ~Threw(call.out)
         /\ call.out.buf[1] = [b |-> 160 + call.c.typeId.num]
         /\ LET simple == DerElement(128, call.c.hash.buf)
                         \o DerElement(129, DerInteger(call.c.cost.num))
                n == Len(simple)
            IN /\ SubSeq(call.out.buf, 3, 2 + n) = simple
               /\ IF call.c.typeId.num \in CompoundKinds
                  THEN Len(call.out.buf) > 3 + n /\ call.out.buf[3 + n] = [b |-> 130]
                  ELSE Len(call.out.buf) = 2 + n
    ELSE call.out = MissingDataError

\* C17 witness: the PREIMAGE-SHA-256 kind was encoded under the tag 0
C17_Witness ==
  /\ Encoded(call) /\ ValidFields(call.c)
  /\ call.c.typeId = Num(0)
  /\ ~Threw(call.out)
  /\ call.out.buf[1] = [b |-> 160]
  /\ call.out.buf[3] = [b |-> 128]

\* a valid Condition: a 32 byte fingerprint, one of the five kinds, a cost
\* that is not negative, and no subtypes for a simple kind
ValidCondition(c) ==
  /\ ValidFields(c)
  /\ c.typeId.num \in 0..4
  /\ (c.typeId.num \notin CompoundKinds) => c.subtypes = <<>>

\* C18: the encoding is one to one on valid Conditions, which is what a
\* decoding that gives back every field needs: every valid Condition encodes
\* to bytes, and two valid Conditions that differ in a field never encode to
\* the same bytes.
C18_EncodingIsOneToOne ==
  /\ (Encoded(call) /\ ValidCondition(call.c)) => IsBuf(call.out)
  /\ (/\ Encoded(prev) /\ Encoded(call)
      /\ ValidCondition(prev.c) /\ ValidCondition(call.c)
      /\ prev.c # call.c)
       => prev.out # call.out

\* C18 witness: two Conditions of kind 0 that differ in the cost only were
\* encoded to different bytes
C18_Witness ==
  /\ Encoded(prev) /\ Encoded(call)
  /\ prev.c.typeId = Num(0) /\ call.c.typeId = Num(0)
  /\ prev.c.hash = Buf(HashA) /\ call.c.hash = Buf(HashA)
  /\ prev.c.subtypes = <<>> /\ call.c.subtypes = <<>>
  /\ prev.c.cost = Num(32) /\ call.c.cost = Num(33)
  /\ IsBuf(prev.out) /\ IsBuf(call.out)
  /\ prev.out # call.out

\* the Sha256condition call of the last pass of the finish loop threw
DerivationThrew == ~IsUndef(att) /\ att.derivs # <<>> /\ Threw(att.derivs[1])

\* C19: an error raised by a derivation ends the builder call with that
\* error: the call neither goes on to another prompt or pass nor returns.
C19_FailuresAbort ==
  /\ pc \in {"created", "returned"} => \A i \in 1..Len(derivs) : ~Threw(derivs[i])
  /\ (pc \in {"finish", "returned", "crashed"} /\ DerivationThrew)
       => pc = "crashed" /\ ret = att.derivs[1]

\* C19 witness: a password derivation with a salt bcrypt rejects ended the
\* finish call with the error of bcrypt
C19_Witness ==
  /\ DerivationThrew
  /\ att.kind = "password"
  /\ att.salt = Str(SaltBad)
  /\ pc = "crashed"
  /\ ret = att.derivs[1]

\* the finish call returned a fulfillment
ReturnedFulfillment ==
  /\ pc = "returned" /\ ~IsUndef(ret)
  /\ "data" \in DOMAIN ret /\ ~IsUndef(ret.data)

\* C20: every fulfillment escrowFinishFulfillmentRequest returns is the hex
\* text of the encoded PREIMAGE-SHA-256 fulfillment (tag 0) of a preimage of
\* 32 bytes or more, and comes with the byte size of that preimage.
C20_ReturnsEncodedFulfillment ==
  ReturnedFulfillment =>
    /\ "preimageSize" \in DOMAIN ret
    /\ IsStr(ret.data)
    /\ LET der == BufferFromHex(ret.data.str)
       IN /\ Len(der) >= 5
          /\ der[1] = [b |-> 160]
          /\ der[3] = [b |-> 128]
          /\ der[4] = [b |-> ret.preimageSize.num]
          /\ Length(SubSeq(der, 5, Len(der))) = ret.preimageSize.num
          /\ ret.preimageSize.num >= 32

\* C20 witness: a key that matched the condition came back as a fulfillment
\* with the size 32
C20_Witness ==
  /\ ReturnedFulfillment
  /\ att.report = "match"
  /\ att.kind = "key"
  /\ "preimageSize" \in DOMAIN ret
  /\ ret.preimageSize = Num(32)
  /\ BufferFromHex(ret.data.str)[1] = [b |-> 160]

\* the symbols at the start of an encoded buffer: the bytes before the first zero
Symbols(out) ==
  LET n == IF \E i \in 1..Len(out) : out[i].b = 0
           THEN (CHOOSE i \in 1..Len(out) : out[i].b = 0 /\ \A j \in 1..(i - 1) : out[j].b # 0) - 1
           ELSE Len(out)
  IN [i \in 1..n |-> out[i].b]

\* the six-bit groups of a byte array, from the most significant bit on, the
\* last group filled up with zero bits
SixBitGroups(bytes) ==
  LET bit(k) == IF k > 8 * Len(bytes) THEN 0
                ELSE (bytes[((k - 1) \div 8) + 1] \div (2 ^ (7 - ((k - 1) % 8)))) % 2
  IN [j \in 1..((8 * Len(bytes) + 5) \div 6) |->
        32 * bit(6 * j - 5) + 16 * bit(6 * j - 4) + 8 * bit(6 * j - 3)
        + 4 * bit(6 * j - 2) + 2 * bit(6 * j - 1) + bit(6 * j)]

\* what C21 says of one recorded encoding
EncodedAsClaimed(c) ==
  LET n == Len(c.in)
      sym == Symbols(c.out)
  IN /\ 3 * Len(sym) >= 4 * n /\ 3 * Len(sym) < 4 * n + 3
     /\ Len(sym) = 4 * (n \div 3) + (IF n % 3 = 0 THEN 0 ELSE (n % 3) + 1)
     /\ \A j \in 1..Len(sym) : \E k \in 0..63 : sym[j] = BASE64_CODE[k + 1]
     /\ Len(sym) = Len(SixBitGroups(c.in))
     /\ \A j \in 1..Len(sym) : sym[j] = BASE64_CODE[SixBitGroups(c.in)[j] + 1]
     /\ (n = BCRYPT_MAXSALT => Len(sym) = BCRYPT_SALT_B64_LEN)

\* C21: bcryptEncodeBase64 writes for n bytes exactly ceil(4n/3) symbols of the
\* bcrypt alphabet, four for every three bytes (their six-bit groups), two for
\* a last single byte and three for a last pair; a seed of 16 bytes gives 22
\* symbols, and two different seeds give different 22 symbols
C21_EncodeBase64 ==
  /\ (~IsUndef(call) => EncodedAsClaimed(call))
  /\ (~IsUndef(call) /\ ~IsUndef(prev)
      /\ Len(call.in) = BCRYPT_MAXSALT /\ Len(prev.in) = BCRYPT_MAXSALT
      /\ call.in # prev.in
        => SubSeq(call.out, 1, BCRYPT_SALT_B64_LEN) # SubSeq(prev.out, 1, BCRYPT_SALT_B64_LEN))

C21_Witness ==
  /\ ~IsUndef(call) /\ ~IsUndef(prev)
  /\ call.in = SeedWith(16, 1) /\ prev.in = SeedWith(16, 2)
  /\ Len(Symbols(call.out)) = 22

\* the sequence check of a Submit call reported an expired sequence
ReportedExpired(n) ==
  /\ ~IsUndef(n.validation)
  /\ \/ ~IsUndef(n.validation.accountSeq) /\ n.validation.accountSeq.expired.bool
     \/ ~IsUndef(n.validation.ledgerSeq) /\ n.validation.ledgerSeq.expired.bool

\* C22: Submit sends the transaction (client.submit) only after a y/yes at its
\* confirmation prompt, and when the sequence check reported the account
\* Sequence or the LastLedgerSequence as expired only after a second y/yes;
\* any other answer ends the call without a submission.
C22_SubmitOnlyAfterYes ==
  net.op = "Submit" =>
    /\ net.submits <= 1
    /\ net.submits = 1 =>
         /\ Len(net.answers) >= 1 /\ IsYes(net.answers[1])
         /\ ReportedExpired(net) => Len(net.answers) = 2 /\ IsYes(net.answers[2])
    /\ (Len(net.answers) > 0 /\ ~IsYes(net.answers[Len(net.answers)]))
         => net.at = "exit" /\ net.code = 1 /\ net.submits = 0

\* C22 witness: a transaction with an expired account Sequence was sent after
\* two yes answers
C22_Witness ==
  /\ net.op = "Submit" /\ net.submits = 1
  /\ ReportedExpired(net)
  /\ ~IsUndef(net.validation.accountSeq) /\ net.validation.accountSeq.expired.bool
  /\ net.answers = <<S(<<"y">>), S(<<"Y", "E", "S">>)>>

\* C23: in offline mode no client is constructed, nothing is asked of or sent
\* to a server; XrplClient and Submit fail, and AddTransactionSequences, when
\* it is not given both numbers, asks for them at its prompts.
C23_OfflineNeverConnects ==
  offline =>
    /\ net.clients = 0 /\ net.queries = 0 /\ net.submits = 0
    /\ net.op \in {"XrplClient", "Submit"} => net.at = "exit" /\ net.code = 1
    /\ (net.op = "AddTransactionSequences"
        /\ (isNaN(net.p.ledgerSeqIndex) \/ isNaN(net.p.accSequence)))
         => net.at = "done" /\ Len(net.answers) >= 2

\* C23 witness: offline, AddTransactionSequences was called for an account
\* with a network and a client, asked its three prompts and filled in the
\* typed sequences
C23_Witness ==
  /\ offline
  /\ net.op = "AddTransactionSequences" /\ net.at = "done"
  /\ Truthy(net.p.account) /\ Truthy(net.p.network) /\ ~IsUndef(net.p.client)
  /\ Len(net.answers) = 3
  /\ net.tx.Sequence = Num(7) /\ net.tx.LastLedgerSequence = Num(120)

\* the sequences of the checked transaction of a Submit call are current
SequencesCurrent(n) ==
  LET tx == decode(n.tx)
  IN /\ tx.Sequence = n.info.accountSequence
     /\ \/ IsUndef(tx.LastLedgerSequence)
        \/ tx.LastLedgerSequence.num >= n.info.ledgerLastIndex.num

\* C30: after a yes at the first prompt, a Submit call with sequence
\* validation that got the account's sequences submits a transaction whose
\* Sequence is current and whose LastLedgerSequence is absent or not passed
\* without a second prompt and without failing; the second prompt comes only
\* for an expired Sequence or LastLedgerSequence.
C30_CurrentIsSubmitted ==
  (/\ net.op = "Submit" /\ Truthy(net.p.validateSequence)
   /\ Len(net.answers) >= 1 /\ IsYes(net.answers[1])
   /\ ~IsUndef(net.info))
    => /\ SequencesCurrent(net) => Len(net.answers) = 1 /\ net.submits = 1
       /\ net.at = "confirmAnyway" => ReportedExpired(net)

\* C30 witness: a transaction with a current Sequence and a LastLedgerSequence
\* equal to the current ledger index was sent after one yes
C30_Witness ==
  /\ net.op = "Submit" /\ Truthy(net.p.validateSequence)
  /\ ~IsUndef(net.info) /\ SequencesCurrent(net)
  /\ decode(net.tx).LastLedgerSequence = net.info.ledgerLastIndex
  /\ net.answers = <<S(<<"y">>)>> /\ net.submits = 1 /\ net.at = "sent"

\* C24 as stated: no encoding changes module-level state of the codec; the
\* type registry aside, nothing is shared between two invocations.
C24_NoSharedMutableState == [][asn1Schemas' = asn1Schemas]_vars

\* C24 amended: the module keeps the schemas it has built: an encoding that
\* gets as far as its schemas builds them when the module holds none and
\* leaves them as they are when it does, so that schemas once held stay the
\* same for every later invocation; an encoding that fails before it leaves
\* the module state as it is.
C24_SchemasBuiltOnce ==
  [][/\ ~IsUndef(asn1Schemas.conditions) => asn1Schemas'.conditions = asn1Schemas.conditions
     /\ ~IsUndef(asn1Schemas.fulfillments)
          => asn1Schemas'.fulfillments = asn1Schemas.fulfillments
     /\ asn1Schemas'.conditions \in {Undef, Asn1SchemasConditions}
     /\ asn1Schemas'.fulfillments \in {Undef, Asn1SchemasFulfillments}
     /\ (~IsUndef(call') /\ Threw(call'.out)) => asn1Schemas' = asn1Schemas
     /\ (~IsUndef(call') /\ ~Threw(call'.out))
          => IF "c" \in DOMAIN call' THEN ~IsUndef(asn1Schemas'.conditions)
             ELSE ~IsUndef(asn1Schemas'.fulfillments)]_vars

\* C24 witness: a fulfillment and then a condition were encoded, and the module
\* holds the schemas of both
C24_Witness ==
  /\ ~IsUndef(prev) /\ ~IsUndef(call)
  /\ "f" \in DOMAIN prev /\ ~Threw(prev.out)
  /\ "c" \in DOMAIN call /\ ~Threw(call.out)
  /\ asn1Schemas = [conditions |-> Asn1SchemasConditions,
                    fulfillments |-> Asn1SchemasFulfillments]

\* the last pass of the finish loop derived a condition from its own entry
DerivedInPass == att.derivs # <<>> /\ ~Threw(att.derivs[1])

\* C25: a pass of escrowFinishFulfillmentRequest compares, and returns the
\* fulfillment of, the condition derived from the secret or password entered
\* in that pass, never one kept from an earlier pass.
C25_JudgedOnOwnEntry ==
  (pc \in {"finish", "returned", "crashed"} /\ ~IsUndef(att)) =>
    /\ att.report \in {"unchecked", "match", "mismatch"} => DerivedInPass
    /\ (pc = "returned" /\ "preimageSize" \in DOMAIN ret)
         => /\ DerivedInPass
            /\ ret = escrowFulfillment(att.derivs[1].hexSecretPreimage)

\* C25 witness: the second pass derived a condition from the key entered in
\* it and returned the fulfillment of that key
C25_Witness ==
  /\ pc = "returned" /\ ~IsUndef(att) /\ fin.i = 1
  /\ att.kind = "key" /\ DerivedInPass
  /\ "preimageSize" \in DOMAIN ret
  /\ ret = escrowFulfillment(att.derivs[1].hexSecretPreimage)
  /\ toUpperCase(att.derivs[1].hexSecretPreimage) = toUpperCase(att.entered.str)

\* the answer given at a yes/no prompt is y or yes, in any letter case
Affirmed(v) == ~IsUndef(v) /\ toLowerCase(v.str) \in {S(<<"y">>), S(<<"y", "e", "s">>)}

\* C26: called with a test condition, escrowFinishFulfillmentRequest returns
\* a fulfillment only when the condition derived from the entry equals the
\* test condition, letter case aside, or when the user answered y/yes to
\* 'Continue anyway with this secret'; otherwise it returns nothing.
C26_ReturnsOnMatchOrConsent ==
  (pc = "returned" /\ Truthy(fin.escrowTestCondition)) =>
    \/ IsUndef(ret)
    \/ /\ "data" \in DOMAIN ret
       /\ \/ DerivedInPass /\ ConditionMatches(att.derivs[1], fin.escrowTestCondition)
          \/ Affirmed(att.cont)

\* C26 witness: a mismatch, 'n' to continue anyway and 'n' to try again: the
\* call with a test condition returned nothing
C26_Witness ==
  /\ pc = "returned" /\ Truthy(fin.escrowTestCondition)
  /\ att.report = "mismatch" /\ DerivedInPass
  /\ ~ConditionMatches(att.derivs[1], fin.escrowTestCondition)
  /\ att.cont = Str(S(<<"n">>)) /\ att.again = Str(S(<<"n">>))
  /\ IsUndef(ret)

\* C29: escrowFinishFulfillmentRequest ends once its prompts are answered,
\* after at most 20 passes; a further pass starts only after a mismatch with
\* a no to 'Continue anyway' and a yes to 'try again'; when the 20 passes
\* are used up the call returns nothing.
C29_EndsWithinTwentyAttempts ==
  /\ [](pc = "finish" => fin.i < MaxAttempts)
  /\ [][(pc = "finish" /\ pc' = "finish")
          => /\ fin'.i = fin.i + 1
             /\ att'.report = "mismatch"
             /\ ~Affirmed(att'.cont) /\ Affirmed(att'.again)]_vars
  /\ []((pc = "returned" /\ fin.i = MaxAttempts - 1 /\ att.report = "mismatch"
         /\ ~Affirmed(att.cont) /\ Affirmed(att.again)) => IsUndef(ret))
  /\ (pc = "finish" ~> pc \in {"returned", "crashed"})

\* C29 witness: the twentieth pass ended in a mismatch, a no to continue
\* anyway and a yes to try again, and the call returned nothing
C29_Witness ==
  /\ pc = "returned" /\ fin.i = MaxAttempts - 1
  /\ att.report = "mismatch" /\ ~Affirmed(att.cont) /\ Affirmed(att.again)
  /\ IsUndef(ret)

(***************************************************************************)
(* common.js, time.js, cli_args.js: times                                  *)
(***************************************************************************)
\* the seconds between 1970-01-01 and the Ripple epoch, 2000-01-01
RIPPLE_EPOCH_UNIX_DIFFERENCE == 946684800

\* the Unix time, in seconds, of 1 January of year Y, 00:00:00 UTC
\* (for the years 1970..2099, where every fourth year is a leap year)
UnixOfYear(Y) == 86400 * (365 * (Y - 1970) + ((Y - 1969) \div 4))

\* a Date: year y, s seconds into the year, ms milliseconds into the second.
\* An ISO time text is one unit holding the Date it spells.
IsoTime(y, s, ms) == Str(<<[iso |-> TRUE, y |-> y, s |-> s, ms |-> ms]>>)

\* new Date(text): the Date an ISO text spells, Undef (Invalid Date) for any
\* other text, as Node parses it
NewDate(text) ==
  IF IsStr(text) /\ Len(text.str) = 1 /\ "iso" \in DOMAIN text.str[1]
  THEN text.str[1] ELSE Undef

\* new Date(seconds * 1000).toISOString() for a whole number of seconds
toISOString(seconds) ==
  LET Y == CHOOSE y \in 1970..2037 : UnixOfYear(y) <= seconds /\ seconds < UnixOfYear(y + 1)
  IN IsoTime(Y, seconds - UnixOfYear(Y), 0)

\* rippleEpochTimestamp(timeString): xrpl.isoTimeToRippleTime rounds the Unix
\* time to the nearest second and moves it to the Ripple epoch
rippleEpochTimestamp(timeString) ==
  IF ~Truthy(timeString) THEN [exit |-> 0]
  ELSE LET d == NewDate(timeString)
       IN IF IsUndef(d) THEN [throw |-> "RangeError"]
          ELSE Num(UnixOfYear(d.y) + d.s + (IF d.ms >= 500 THEN 1 ELSE 0)
                   - RIPPLE_EPOCH_UNIX_DIFFERENCE)

\* validateRippleEpochTimestamp(rippleEpochTimestamp, unixTimeString): the
\* timestamp spells the text again, the text's milliseconds put to 000
validateRippleEpochTimestamp(timestamp, unixTimeString) ==
  LET d == NewDate(unixTimeString)
  IN toISOString(timestamp.num + RIPPLE_EPOCH_UNIX_DIFFERENCE) = IsoTime(d.y, d.s, 0)

\* Number.prototype.toString of a natural number
RECURSIVE DigitsOf(_)
DigitsOf(n) ==
  IF n < 10 THEN S(<<FromCharCode(48 + n)>>)
  ELSE DigitsOf(n \div 10) \o S(<<FromCharCode(48 + (n % 10))>>)

\* DateAddTimeInterval(initialDate, interval) for the intervals this program
\* builds, '<digits> years': the year moves on by the number, the rest of
\* the Date stays; null when the text names no interval
DateAddTimeInterval(initialDate, interval) ==
  LET word == S(<<" ", "y", "e", "a", "r", "s">>)
      n == Len(interval) - Len(word)
  IN IF n >= 1 /\ SubSeq(interval, n + 1, Len(interval)) = word
        /\ \A i \in 1..n : IsDigit(interval[i])
     THEN [initialDate EXCEPT !.y = @ + DigitsValue(SubSeq(interval, 1, n))]
     ELSE Null

\* ProcessInputDateTime(answer, { type: ['timeoffset', 'drop_ms'] }, dateOffsetFrom):
\* the ISO text of the time, null for a text that is neither a time nor an
\* interval
ProcessInputDateTime(answer, dateOffsetFrom) ==
  LET parsed == NewDate(Str(answer))
      dateTest == IF IsUndef(parsed) THEN DateAddTimeInterval(dateOffsetFrom, answer)
                  ELSE parsed
      whole(d) == IF d.ms = 0 THEN d
                  ELSE IF d.ms >= 500
                  THEN NewDate(toISOString(UnixOfYear(d.y) + d.s + 1))
                  ELSE [d EXCEPT !.ms = 0]
  IN IF IsNull(dateTest) \/ IsUndef(dateTest) THEN Null
     ELSE Str(<<whole(dateTest)>>)

(***************************************************************************)
(* escrow_condition.js, escrow.js, escrow_self.js: the self escrow         *)
(***************************************************************************)
\* escrowAskPasswordCancellation({ answers, releaseTimeString }): the value
\* it leaves in answers.timeConditionCancelAfter.  a.allow is the line typed
\* at the first prompt, a.years the lines typed at the prompts for the
\* years, the last one standing for every later one.
escrowAskPasswordCancellation(releaseTimeString, a) ==
  LET RECURSIVE years(_)
      years(i) ==
        IF i >= 20 THEN Undef
        ELSE LET line == a.years[IF i + 1 <= Len(a.years) THEN i + 1 ELSE Len(a.years)]
                 answer == Number(PromptRequired(<<line>>, -1))
                 time == ProcessInputDateTime(DigitsOf(answer.num) \o S(<<" ", "y", "e", "a", "r", "s">>),
                                              NewDate(releaseTimeString))
             IN IF IsNaN(answer) THEN years(i + 1)
                ELSE IF Truthy(time) THEN time
                ELSE years(i + 1)
  IN IF Len(Trim(a.allow)) > 0 /\ ~IsYes(Trim(a.allow)) THEN Undef
     ELSE years(0)

\* selfEscrowGeneralParams({ account, releaseTimeString, amountDropsToEscrow, feeDrops })
selfEscrowGeneralParams(account, releaseTimeString, amountDropsToEscrow, feeDrops) ==
  LET releaseTimestamp == rippleEpochTimestamp(releaseTimeString)
  IN IF Exited(releaseTimestamp) \/ Threw(releaseTimestamp) THEN releaseTimestamp
     ELSE IF ~validateRippleEpochTimestamp(releaseTimestamp, releaseTimeString) THEN Exit
     ELSE [cancelAfter |-> Num(releaseTimestamp.num + 1),
           finishAfter |-> releaseTimestamp,
           accountSrc |-> account,
           accountDest |-> account,
           amountDropsToEscrow |-> amountDropsToEscrow,
           feeDrops |-> feeDrops,
           finishConditionSha256PublicHash |-> Undef,
           tagSrc |-> Undef,
           tagDest |-> Undef]

\* a variant that sends the condition away
ConditionFieldDropped(finishConditionSha256PublicHash) == Undef

\* the Condition field of the transaction escrowCreate builds
ConditionField(finishConditionSha256PublicHash) ==
  IF IsStr(finishConditionSha256PublicHash) /\ Length(finishConditionSha256PublicHash.str) > 0
  THEN Str(toUpperCase(finishConditionSha256PublicHash.str))
  ELSE Undef

\* escrowCreate({ accountSrc, accountDest, cancelAfter, finishAfter,
\*   amountDropsToEscrow, feeDrops, finishConditionSha256PublicHash, tagSrc, tagDest }):
\* the transaction, its absent fields Undef, or [exit] when a check fails
escrowCreate(p) ==
  LET hash == IF IsStr(p.finishConditionSha256PublicHash)
                 /\ Length(p.finishConditionSha256PublicHash.str) > 0
              THEN Str(Trim(p.finishConditionSha256PublicHash.str))
              ELSE p.finishConditionSha256PublicHash
      notPositive(v) == ~Truthy(v) \/ (IsNum(Number(v)) /\ Number(v).num <= 0)
      given(v) == ~IsUndef(v) /\ ~IsNull(v)
      text(v) == IF IsNum(v) THEN Str(DigitsOf(v.num)) ELSE v
      error ==
        \/ ~Truthy(p.accountSrc)
        \/ ~Truthy(p.accountDest)
        \/ ~Truthy(p.finishAfter) /\ ~Truthy(hash)
        \/ notPositive(p.amountDropsToEscrow)
        \/ notPositive(p.feeDrops)
        \/ ~IsUndef(hash) /\ ~Truthy(hash)
        \/ given(p.tagSrc) /\ isNaN(p.tagSrc)
        \/ given(p.tagDest) /\ isNaN(p.tagDest)
        \/ Truthy(p.cancelAfter) /\ Truthy(p.finishAfter)
             /\ p.cancelAfter.num <= p.finishAfter.num
  IN IF error THEN Exit
     ELSE [TransactionType |-> "EscrowCreate",
           Account |-> p.accountSrc,
           Destination |-> p.accountDest,
           Fee |-> text(p.feeDrops),
           Amount |-> text(p.amountDropsToEscrow),
           FinishAfter |-> IF Truthy(p.finishAfter) THEN p.finishAfter ELSE Undef,
           CancelAfter |-> IF Truthy(p.cancelAfter) THEN p.cancelAfter ELSE Undef,
           Condition |-> ConditionField(hash),
           SourceTag |-> IF given(p.tagSrc) THEN Number(p.tagSrc) ELSE Undef,
           DestinationTag |-> IF given(p.tagDest) THEN Number(p.tagDest) ELSE Undef]

\* a variant that leaves the default cancel time in place
CancelAfterKept(escrowParams, tsConditionCancelAfter) ==
  IF Truthy(tsConditionCancelAfter) THEN tsConditionCancelAfter
  ELSE escrowParams.cancelAfter

\* the cancelAfter EscrowSelfFreezeWithCondition hands to escrowCreate for a
\* conditioned escrow
CancelAfterOf(escrowParams, tsConditionCancelAfter) ==
  IF Truthy(tsConditionCancelAfter) THEN tsConditionCancelAfter
  ELSE IF escrowParams.accountSrc = escrowParams.accountDest THEN Undef
  ELSE escrowParams.cancelAfter

\* EscrowSelfFreezeWithCondition({ account, releaseTimeString, amountDropsToEscrow,
\*   feeDrops, timeConditionCancelAfter }): [ret, answers, derivs], ret the
\* transaction, [throw] or [exit]
EscrowSelfFreezeWithCondition(o, a, rounds, rnd1, rnd2) ==
  LET escrowParams == selfEscrowGeneralParams(o.account, o.releaseTimeString,
                                              o.amountDropsToEscrow, o.feeDrops)
      conditioned(pswProtection, derived, timeConditionCancelAfter) ==
        LET tsConditionCancelAfter ==
              IF Truthy(timeConditionCancelAfter)
              THEN rippleEpochTimestamp(timeConditionCancelAfter)
              ELSE Undef
        IN [answers |-> pswProtection, derivs |-> derived,
            ret |-> IF Threw(tsConditionCancelAfter) \/ Exited(tsConditionCancelAfter)
                    THEN tsConditionCancelAfter
                    ELSE IF Truthy(timeConditionCancelAfter)
                            /\ ~validateRippleEpochTimestamp(tsConditionCancelAfter,
                                                             timeConditionCancelAfter)
                    THEN Exit
                    ELSE escrowCreate(
                           [escrowParams EXCEPT
                              !.finishConditionSha256PublicHash =
                                 Str(pswProtection.condition.hexCondition),
                              !.cancelAfter = CancelAfterOf(escrowParams,
                                                            tsConditionCancelAfter)])]
      requested(r) ==
        IF Threw(r) \/ Exited(r) THEN [answers |-> Undef, derivs |-> <<>>, ret |-> r]
        ELSE LET asked == IF r.ret.protect /\ ~Truthy(o.timeConditionCancelAfter)
                          THEN escrowAskPasswordCancellation(o.releaseTimeString, a)
                          ELSE Undef
                 pswProtection ==
                   [k \in DOMAIN r.ret \cup {"timeConditionCancelAfter"} |->
                      IF k = "timeConditionCancelAfter" THEN asked ELSE r.ret[k]]
             IN IF ~pswProtection.protect \/ IsUndef(pswProtection.condition)
                   \/ Len(pswProtection.condition.hexCondition) = 0
                THEN [answers |-> pswProtection, derivs |-> r.derivs,
                      ret |-> escrowCreate(escrowParams)]
                ELSE conditioned(pswProtection, r.derivs,
                                 IF Truthy(o.timeConditionCancelAfter)
                                 THEN o.timeConditionCancelAfter
                                 ELSE pswProtection.timeConditionCancelAfter)
  IN IF Threw(escrowParams) \/ Exited(escrowParams)
     THEN [answers |-> Undef, derivs |-> <<>>, ret |-> escrowParams]
     ELSE requested(escrowPasswordProtectionOnRequest(o.account, a, rounds, rnd1, rnd2))

\* the calls of EscrowSelfFreezeWithCondition: release times at the Ripple
\* epoch and in 2030, an amount of nothing and one of 25 drops, no cancel
\* time, one before the release, one after it, and one that is not a whole
\* second
FreezeOptions ==
  [account : {Str(rA)},
   releaseTimeString : {IsoTime(2000, 0, 0), IsoTime(2030, 0, 0), IsoTime(2030, 3600, 0)},
   amountDropsToEscrow : {Str(S(<<"0">>)), Str(S(<<"2", "5">>))},
   feeDrops : {Num(12)},
   timeConditionCancelAfter : {Undef, IsoTime(1999, 0, 0), IsoTime(2029, 0, 0),
                               IsoTime(2035, 0, 0), IsoTime(2035, 0, 200),
                               IsoTime(2035, 0, 700)}]

\* the lines typed at the prompts of escrowAskPasswordProtection and of
\* escrowAskPasswordCancellation
FreezeAnswers ==
  {[protect |-> p.protect, kind |-> p.kind, password |-> p.password, confirm |-> p.confirm,
    randomSalt |-> <<>>, show |-> <<S(<<"n">>)>>, allow |-> allow, years |-> years] :
     p \in {[protect |-> S(<<"n", "o">>), kind |-> <<>>, password |-> <<<<>>>>,
             confirm |-> <<<<>>>>],
            [protect |-> S(<<"Y", "e", "s">>), kind |-> <<>>, password |-> <<<<>>>>,
             confirm |-> <<<<>>>>],
            [protect |-> S(<<"y">>), kind |-> S(<<"p">>), password |-> <<Passw1>>,
             confirm |-> <<Passw1>>],
            [protect |-> S(<<"y">>), kind |-> S(<<"p">>), password |-> <<Passw1>>,
             confirm |-> <<Passw2>>]},
     allow \in {<<>>, S(<<"n">>), S(<<" ", "y", "e", "s">>)},
     years \in {<<S(<<"5">>)>>, <<S(<<"x">>), <<>>, S(<<"2">>)>>, <<S(<<"0">>)>>, <<<<>>>>}}

\* ---- EscrowSelfFreezeWithCondition(o), the prompts answered with a ----
Freeze(o, a, rnd1, rnd2) ==
  /\ pc = "idle"
  /\ \E r \in {EscrowSelfFreezeWithCondition(o, a, cfgRounds, rnd1, rnd2)} :
        /\ pc' = IF Threw(r.ret) \/ Exited(r.ret) THEN "crashed" ELSE "frozen"
        /\ call' = [o |-> o, a |-> a]
        /\ escrow' = IF IsUndef(r.answers) THEN escrow
                     ELSE [account |-> o.account, answers |-> r.answers]
        /\ derivs' = r.derivs
        /\ ret' = r.ret
        /\ asn1Schemas' = SchemasCached(asn1Schemas, r.derivs # <<>>, FALSE)
  /\ UNCHANGED <<offline, net, cfgRounds, fin, att, prev, feeCall>>

NextFreeze ==
  \E o \in FreezeOptions, a \in FreezeAnswers, rnd1 \in Rnds :
    Freeze(o, a, rnd1, CHOOSE rnd2 \in Rnds : rnd2 # rnd1)

SpecFreeze == Init /\ [][NextFreeze]_vars

\* the user said yes at the prompt that offers to protect the finish
ProtectionRequested == IsYes(Trim(call.a.protect))

\* C27: when the user answers yes to protecting the escrow finish and
\* EscrowSelfFreezeWithCondition returns a transaction, a condition was
\* derived and the transaction's Condition is its hexCondition in upper
\* case: no requested protection ends in an escrow without a condition.
C27_ProtectionNeverDropped ==
  (pc = "frozen" /\ ProtectionRequested)
    => /\ derivs # <<>>
       /\ Len(derivs[1].hexCondition) > 0
       /\ ret.TransactionType = "EscrowCreate"
       /\ ret.Condition = Str(toUpperCase(derivs[1].hexCondition))

\* C27 witness: a yes to the protection, a password typed and confirmed, and
\* the transaction returned with the condition derived from it
C27_Witness ==
  /\ pc = "frozen" /\ ProtectionRequested
  /\ Truthy(escrow.answers.secret)
  /\ ret.Condition = Str(toUpperCase(derivs[1].hexCondition))

\* the cancel time the call was given, or else the one the user's answers
\* made
SpecifiedCancelAfter ==
  IF Truthy(call.o.timeConditionCancelAfter) THEN call.o.timeConditionCancelAfter
  ELSE escrow.answers.timeConditionCancelAfter

\* the returned transaction is an escrow to the sender's own account that
\* carries a condition
ConditionedSelfEscrow ==
  pc = "frozen" /\ ret.Account = ret.Destination /\ ~IsUndef(ret.Condition)

====
